---- MODULE Spec2Model ----
(***************************************************************************)
(* Verification model of qifutil: the transactions export                  *)
(* (cmd/transactions.go), the balance-history reconstruction               *)
(* (cmd/balance_history.go) and the ValidationTracker (pkg/utils).         *)
(*                                                                         *)
(* Text is a sequence of one-character strings.  float64 is modelled as a  *)
(* binary floating-point number with MantBits bits of significand and      *)
(* round-to-nearest-even, the IEEE-754 rules at a reduced width; the       *)
(* exponent range is unbounded (no overflow or underflow is reachable).    *)
(***************************************************************************)
EXTENDS Integers, Sequences, FiniteSets, TLC

\* ------------------------------------------------------------------ bounds
MantBits == 13
MaxTxns == 3
MaxCap == 2
NumProducers == 2
MaxFieldLen == 5
MaxBlocks == 2
MaxRows == 3

\* ------------------------------------------------------------- text helpers
Digits == <<"0", "1", "2", "3", "4", "5", "6", "7", "8", "9">>

IsDigit(c) == \E i \in 1..Len(Digits) : Digits[i] = c

DigitVal(c) == (CHOOSE i \in 1..Len(Digits) : Digits[i] = c) - 1

\* byte order of the characters that occur in canonical dates: '-' < '0'..'9'
ByteOrder == <<"-", "0", "1", "2", "3", "4", "5", "6", "7", "8", "9">>

ByteOf(c) == CHOOSE i \in 1..Len(ByteOrder) : ByteOrder[i] = c

RECURSIVE StrLess(_, _)
\* Go's < on strings: lexicographic by byte, a proper prefix is smaller
StrLess(a, b) ==
    IF b = <<>> THEN FALSE
    ELSE IF a = <<>> THEN TRUE
    ELSE IF Head(a) = Head(b) THEN StrLess(Tail(a), Tail(b))
    ELSE ByteOf(Head(a)) < ByteOf(Head(b))

RECURSIVE TrimLeft(_)
TrimLeft(s) == IF s # <<>> /\ Head(s) = " " THEN TrimLeft(Tail(s)) ELSE s

RECURSIVE TrimRight(_)
TrimRight(s) ==
    IF s # <<>> /\ s[Len(s)] = " " THEN TrimRight(SubSeq(s, 1, Len(s) - 1)) ELSE s

\* strings.TrimSpace
TrimSpace(s) == TrimRight(TrimLeft(s))

\* strings.ReplaceAll(s, c, "")
RemoveChar(s, c) == SelectSeq(s, LAMBDA x : x # c)

\* s[len(s)-2:]
LastTwo(s) == SubSeq(s, Len(s) - 1, Len(s))

\* ------------------------------------------------------------------ float64
RECURSIVE Pow2(_)
Pow2(n) == IF n = 0 THEN 1 ELSE 2 * Pow2(n - 1)

RECURSIVE Pow10(_)
Pow10(n) == IF n = 0 THEN 1 ELSE 10 * Pow10(n - 1)

RECURSIVE BitLen(_)
BitLen(n) == IF n = 0 THEN 0 ELSE 1 + BitLen(n \div 2)

\* n/d rounded to the nearest integer, ties to even
RoundHalfEven(n, d) ==
    LET q == n \div d
        r == n % d
    IN  IF 2 * r > d \/ (2 * r = d /\ q % 2 = 1) THEN q + 1 ELSE q

\* a float is (-1)^s * m * 2^e, with m = 0 or 2^(MantBits-1) <= m < 2^MantBits
MkFloat(s, m, e) == [s |-> s, m |-> m, e |-> e]

PosZero == MkFloat(0, 0, 0)

\* the float nearest to (-1)^s * n * 2^e, for a natural number n
Normalize(s, n, e) ==
    IF n = 0 THEN MkFloat(s, 0, 0)
    ELSE LET k == BitLen(n) - MantBits
         IN  IF k <= 0 THEN MkFloat(s, n * Pow2(-k), e + k)
             ELSE LET m == RoundHalfEven(n, Pow2(k))
                  IN  IF m = Pow2(MantBits)
                      THEN MkFloat(s, Pow2(MantBits - 1), e + k + 1)
                      ELSE MkFloat(s, m, e + k)

RECURSIVE ScaleRatio(_, _, _)
\* <<a, b, t>> with a/b = (n/d) * 2^t and 2^(MantBits-1) <= a/b < 2^MantBits
ScaleRatio(a, b, t) ==
    IF a < b * Pow2(MantBits - 1) THEN ScaleRatio(2 * a, b, t + 1)
    ELSE IF a >= b * Pow2(MantBits) THEN ScaleRatio(a, 2 * b, t - 1)
    ELSE <<a, b, t>>

\* the float nearest to (-1)^s * n / d, for natural numbers n and d > 0
FromRatio(s, n, d) ==
    IF n = 0 THEN MkFloat(s, 0, 0)
    ELSE LET abt == ScaleRatio(n, d, 0)
             m == RoundHalfEven(abt[1], abt[2])
         IN  IF m = Pow2(MantBits)
             THEN MkFloat(s, Pow2(MantBits - 1), 1 - abt[3])
             ELSE MkFloat(s, m, -abt[3])

FNeg(x) == MkFloat(1 - x.s, x.m, x.e)

Signed(x) == IF x.s = 1 THEN -x.m ELSE x.m

\* x + y of float64: the exact sum rounded to nearest even; an exact zero sum
\* is +0 unless both operands are -0
FAdd(x, y) ==
    IF x.m = 0 /\ y.m = 0 THEN MkFloat(IF x.s = 1 /\ y.s = 1 THEN 1 ELSE 0, 0, 0)
    ELSE IF x.m = 0 THEN y
    ELSE IF y.m = 0 THEN x
    ELSE IF x.e - y.e > MantBits + 2 THEN x
    ELSE IF y.e - x.e > MantBits + 2 THEN y
    ELSE LET lo == IF x.e < y.e THEN x.e ELSE y.e
             sum == Signed(x) * Pow2(x.e - lo) + Signed(y) * Pow2(y.e - lo)
         IN  IF sum = 0 THEN PosZero
             ELSE IF sum < 0 THEN Normalize(1, -sum, lo)
             ELSE Normalize(0, sum, lo)

FSub(x, y) == FAdd(x, FNeg(y))

\* fmt.Sprintf("%.2f", x): the sign, and the magnitude in hundredths rounded
\* to nearest even on the exact binary value ("-0.00" keeps its sign)
Fmt2(x) ==
    LET cents == IF x.m = 0 THEN 0
                 ELSE IF x.e >= 0 THEN x.m * Pow2(x.e) * 100
                 ELSE IF -x.e > MantBits + 8 THEN 0
                 ELSE RoundHalfEven(x.m * 100, Pow2(-x.e))
    IN  [neg |-> x.s = 1, cents |-> cents]

RECURSIVE NatText(_)
\* the decimal digits of a natural number
NatText(n) ==
    IF n < 10 THEN <<Digits[n + 1]>> ELSE NatText(n \div 10) \o <<Digits[(n % 10) + 1]>>

\* the text fmt.Sprintf("%.2f", x) produces
Sprintf2(x) ==
    LET f == Fmt2(x)
    IN  (IF f.neg THEN <<"-">> ELSE <<>>)
        \o NatText(f.cents \div 100)
        \o <<".", Digits[((f.cents \div 10) % 10) + 1], Digits[(f.cents % 10) + 1]>>

RECURSIVE DigitPrefix(_)
\* the longest prefix of s made of decimal digits
DigitPrefix(s) ==
    IF s # <<>> /\ IsDigit(Head(s)) THEN <<Head(s)>> \o DigitPrefix(Tail(s)) ELSE <<>>

RECURSIVE DigitsValue(_)
DigitsValue(s) ==
    IF s = <<>> THEN 0 ELSE 10 * DigitsValue(SubSeq(s, 1, Len(s) - 1)) + DigitVal(s[Len(s)])

\* strconv.ParseFloat(s, 64) on decimal text: [sign] digits [. digits], with at
\* least one digit; anything else is a syntax error (err # nil)
ParseFloat(s) ==
    LET signed == s # <<>> /\ Head(s) \in {"-", "+"}
        sgn == IF signed /\ Head(s) = "-" THEN 1 ELSE 0
        body == IF signed THEN Tail(s) ELSE s
        ip == DigitPrefix(body)
        rest == SubSeq(body, Len(ip) + 1, Len(body))
        dotted == rest # <<>> /\ Head(rest) = "."
        fp == IF dotted THEN DigitPrefix(Tail(rest)) ELSE <<>>
        used == Len(ip) + (IF dotted THEN 1 + Len(fp) ELSE 0)
        ok == used = Len(body) /\ Len(ip) + Len(fp) > 0
    IN  IF ok THEN [ok |-> TRUE, val |-> FromRatio(sgn, DigitsValue(ip \o fp), Pow10(Len(fp)))]
        ELSE [ok |-> FALSE, val |-> PosZero]

\* --------------------------------------------------------------- date fields
\* lines 489-494: "20" + year, month and day zero-padded to two characters
CanonicalDate(month, day, year) ==
    <<"2", "0">> \o year \o <<"-">> \o LastTwo(<<"0">> \o month)
                 \o <<"-">> \o LastTwo(<<"0">> \o day)

IsLeap(y) == (y % 4 = 0 /\ y % 100 # 0) \/ y % 400 = 0

DaysIn(y, m) ==
    IF m = 2 THEN (IF IsLeap(y) THEN 29 ELSE 28)
    ELSE IF m \in {4, 6, 9, 11} THEN 30 ELSE 31

ZeroTime == <<1, 1, 1>>

\* time.Parse("2006-01-02", s) with the error discarded: the parsed
\* <<year, month, day>>, or the zero Time when s is no calendar date
TimeParse(s) ==
    LET wellFormed == /\ Len(s) = 10
                      /\ s[5] = "-" /\ s[8] = "-"
                      /\ \A i \in {1, 2, 3, 4, 6, 7, 9, 10} : IsDigit(s[i])
        y == DigitsValue(SubSeq(s, 1, 4))
        m == DigitsValue(SubSeq(s, 6, 7))
        d == DigitsValue(SubSeq(s, 9, 10))
    IN  IF wellFormed /\ m \in 1..12 /\ d >= 1 /\ d <= DaysIn(y, m)
        THEN <<y, m, d>> ELSE ZeroTime

\* a comparison that also holds of equal days
TimeBeforeOrEqual(a, b) ==
    \/ a[1] < b[1]
    \/ a[1] = b[1] /\ a[2] < b[2]
    \/ a[1] = b[1] /\ a[2] = b[2] /\ a[3] <= b[3]

\* Time.Before
TimeBefore(a, b) ==
    \/ a[1] < b[1]
    \/ a[1] = b[1] /\ a[2] < b[2]
    \/ a[1] = b[1] /\ a[2] = b[2] /\ a[3] < b[3]

\* Time.After
TimeAfter(a, b) == TimeBefore(b, a)

\* lines 497-509 (and balance-history 277-289): TRUE when the loop does not
\* `continue`
InDateRange(fullDate, start, end) ==
    LET transDate == TimeParse(fullDate)
    IN  /\ ~(start # <<>> /\ TimeBefore(transDate, TimeParse(start)))
        /\ ~(end # <<>> /\ TimeAfter(transDate, TimeParse(end)))

\* ------------------------------------------------------ category and mapping
RECURSIVE IndexOf(_, _)
\* strings.Index(s, c), 1-based; 0 when c does not occur
IndexOf(s, c) ==
    IF s = <<>> THEN 0
    ELSE IF Head(s) = c THEN 1
    ELSE LET r == IndexOf(Tail(s), c) IN IF r = 0 THEN 0 ELSE r + 1

RECURSIVE LastIndexOf(_, _)
\* strings.LastIndex(s, c), 1-based; 0 when c does not occur
LastIndexOf(s, c) ==
    IF s = <<>> THEN 0
    ELSE IF s[Len(s)] = c THEN Len(s)
    ELSE LastIndexOf(SubSeq(s, 1, Len(s) - 1), c)

\* a split at the last slash instead of the first
SplitOnLastSlash(categoryField) ==
    LET idx == LastIndexOf(categoryField, "/")
    IN  IF idx # 0
        THEN <<TrimSpace(SubSeq(categoryField, 1, idx - 1)),
               TrimSpace(SubSeq(categoryField, idx + 1, Len(categoryField)))>>
        ELSE <<TrimSpace(categoryField), <<>>>>

\* a split at every slash that keeps the first two parts only
SplitKeepTwoParts(categoryField) ==
    LET idx == IndexOf(categoryField, "/")
        rest == SubSeq(categoryField, idx + 1, Len(categoryField))
        idx2 == IndexOf(rest, "/")
    IN  IF idx # 0
        THEN <<TrimSpace(SubSeq(categoryField, 1, idx - 1)),
               TrimSpace(IF idx2 # 0 THEN SubSeq(rest, 1, idx2 - 1) ELSE rest)>>
        ELSE <<TrimSpace(categoryField), <<>>>>

\* utils.SplitCategoryAndTag
SplitCategoryAndTag(categoryField) ==
    LET idx == IndexOf(categoryField, "/")
    IN  IF idx # 0
        THEN <<TrimSpace(SubSeq(categoryField, 1, idx - 1)),
               TrimSpace(SubSeq(categoryField, idx + 1, Len(categoryField)))>>
        ELSE <<TrimSpace(categoryField), <<>>>>

\* a mapping table is a function from source text to target text
NoMapping == [x \in {} |-> <<>>]

applyMapping(input, mapping) ==
    IF input \in DOMAIN mapping THEN mapping[input] ELSE input

\* mapping[key] = value
SetKey(mapping, key, value) ==
    [k \in DOMAIN mapping \cup {key} |-> IF k = key THEN value ELSE mapping[k]]

\* a loader that also stores the rows whose target is empty
addRecordKeepEmpty(mapping, record) ==
    IF Len(record) = 2 THEN SetKey(mapping, record[1], record[2]) ELSE mapping

\* loadMapping, lines 688-702: what one record of the file does to the table
addRecord(mapping, record) ==
    IF Len(record) = 1 THEN mapping
    ELSE IF Len(record) = 2
         THEN (IF record[2] # <<>> THEN SetKey(mapping, record[1], record[2]) ELSE mapping)
         ELSE mapping

RECURSIVE loadMappingFrom(_, _)
loadMappingFrom(rows, mapping) ==
    IF rows = <<>> THEN mapping
    ELSE loadMappingFrom(Tail(rows), addRecord(mapping, Head(rows)))

\* loadMapping of a file whose records, as csv.Reader returns them, are rows
loadMapping(rows) == loadMappingFrom(rows, NoMapping)

\* ------------------------------------------------------------ output records
DefaultMonarchColumns ==
    <<"Date", "Merchant", "Category", "Account", "Original Statement", "Notes",
      "Amount", "Tags">>

QifImport == <<"Q", "I", "F", "I", "M", "P", "O", "R", "T">>

ToUpper(f) ==
    CASE f = "csv" -> "CSV"
      [] f = "json" -> "JSON"
      [] f = "xml" -> "XML"
      [] f = "monarch" -> "MONARCH"
      [] OTHER -> f

\* lines 446-455: the amount text of the output record
AmountField(raw) ==
    LET amount1 == RemoveChar(TrimSpace(raw), ",")
        parsed == ParseFloat(amount1)
    IN  IF parsed.ok THEN Sprintf2(parsed.val) ELSE amount1

\* lines 443-494 and 524-533: the TransactionRecord built from one regex match
BuildRecord(t, cfg) ==
    LET payee == RemoveChar(applyMapping(TrimSpace(t.payee), cfg.payeeMapping), "\"")
        split == SplitCategoryAndTag(TrimSpace(t.category))
        category == applyMapping(TrimSpace(split[1]), cfg.categoryMapping)
        tag0 == applyMapping(TrimSpace(split[2]), cfg.tagMapping)
        tag == IF cfg.addTagForImport
               THEN (IF tag0 # <<>> THEN QifImport \o <<",">> \o tag0 ELSE QifImport)
               ELSE tag0
    IN  [Date |-> CanonicalDate(TrimSpace(t.month), TrimSpace(t.day), TrimSpace(t.year)),
         Merchant |-> payee,
         Category |-> category,
         Account |-> cfg.outputAccountName,
         OriginalStatement |-> payee,
         Notes |-> TrimSpace(t.memo),
         Amount |-> AmountField(t.amount1),
         Tags |-> tag]

RECURSIVE DoubleQuotes(_)
\* strings.ReplaceAll(val, "\"", "\"\"")
DoubleQuotes(s) ==
    IF s = <<>> THEN <<>>
    ELSE (IF Head(s) = "\"" THEN <<"\"", "\"">> ELSE <<Head(s)>>) \o DoubleQuotes(Tail(s))

ColumnValue(record, col) ==
    CASE col = "Date" -> record.Date
      [] col = "Merchant" -> record.Merchant
      [] col = "Category" -> record.Category
      [] col = "Account" -> record.Account
      [] col = "Original Statement" -> record.OriginalStatement
      [] col = "Notes" -> record.Notes
      [] col = "Amount" -> record.Amount
      [] col = "Tags" -> record.Tags
      [] OTHER -> <<>>

\* buildCSVRow: one quoted cell per column, in column order
buildCSVRow(record, columns) ==
    [i \in 1..Len(columns) |->
        <<"\"">> \o DoubleQuotes(ColumnValue(record, columns[i])) \o <<"\"">>]

\* what a file holds is a sequence of items, one per write
XmlHeaderItem == [kind |-> "xmlHeader", cols |-> <<>>, cells |-> <<>>, recs |-> <<>>]
CsvHeaderItem(columns) ==
    [kind |-> "csvHeader", cols |-> columns, cells |-> <<>>, recs |-> <<>>]
RowItem(record, columns) ==
    [kind |-> "row", cols |-> <<>>, cells |-> buildCSVRow(record, columns),
     recs |-> <<>>]
JsonArrayItem(records) ==
    [kind |-> "jsonArray", cols |-> <<>>, cells |-> <<>>, recs |-> records]
XmlRootItem(records) ==
    [kind |-> "xmlRoot", cols |-> <<>>, cells |-> <<>>, recs |-> records]

\* ------------------------------------------------- the transaction pattern
\* the input text is held as its non-empty lines (the pattern joins its parts
\* with [\r\n]+); a line is its characters, the first being the QIF field tag
\*
\* D(?<month>\d{1,2})\/(\s?(?<day>\d{1,2}))'(?<year>\d{2}) up to the line end
DateGroups(line) ==
    LET s1 == Tail(line)
        month == DigitPrefix(s1)
        s2 == SubSeq(s1, Len(month) + 1, Len(s1))
        s3 == IF s2 # <<>> THEN Tail(s2) ELSE <<>>
        s4 == IF s3 # <<>> /\ Head(s3) = " " THEN Tail(s3) ELSE s3
        day == DigitPrefix(s4)
        s5 == SubSeq(s4, Len(day) + 1, Len(s4))
        year == IF s5 # <<>> THEN Tail(s5) ELSE <<>>
    IN  [ok |-> /\ Head(line) = "D"
                /\ Len(month) \in {1, 2} /\ s2 # <<>> /\ Head(s2) = "/"
                /\ Len(day) \in {1, 2} /\ s5 # <<>> /\ Head(s5) = "'"
                /\ Len(year) = 2 /\ DigitPrefix(year) = year,
         month |-> month, day |-> day, year |-> year]

\* the line-starting letters of the pattern, in its order
PatternTags == <<"D", "U", "T", "C", "N", "P", "M", "L">>

\* a pattern whose payee group is not optional
OptionalTagsPayeeRequired == {"N", "M"}

\* the groups the pattern wraps in (...)?
OptionalTags == {"N", "P", "M"}

\* the groups the pattern of balance-history wraps in (...)?
BalanceOptionalTags == {"N", "M"}

NoGroups == [x \in {} |-> <<>>]

RECURSIVE MatchFrom(_, _, _, _, _)
\* the pattern from its p-th part on, against the lines from the i-th on: an
\* optional part is tried first and given up when the rest does not follow
MatchFrom(optional, lines, i, p, groups) ==
    IF p > Len(PatternTags) THEN [ok |-> TRUE, end |-> i, groups |-> groups]
    ELSE LET tag == PatternTags[p]
             here == /\ i <= Len(lines)
                     /\ Head(lines[i]) = tag
                     /\ tag = "D" => DateGroups(lines[i]).ok
             taken == MatchFrom(optional, lines, i + 1, p + 1,
                                [g \in DOMAIN groups \cup {tag} |->
                                    IF g = tag THEN Tail(lines[i]) ELSE groups[g]])
             skipped == IF tag \in optional
                        THEN MatchFrom(optional, lines, i, p + 1, groups)
                        ELSE [ok |-> FALSE, end |-> i, groups |-> groups]
         IN  IF here /\ taken.ok THEN taken ELSE skipped

\* getGroup: the text of a named group, "" when the group took no part
getGroup(groups, tag) == IF tag \in DOMAIN groups THEN groups[tag] ELSE <<>>

RECURSIVE FindAllFrom(_, _, _)
FindAllFrom(optional, lines, i) ==
    IF i > Len(lines) THEN <<>>
    ELSE LET m == MatchFrom(optional, lines, i, 1, NoGroups)
             d == DateGroups(lines[i])
         IN  IF m.ok
             THEN <<[month |-> d.month, day |-> d.day, year |-> d.year,
                     amount1 |-> getGroup(m.groups, "U"),
                     payee |-> getGroup(m.groups, "P"),
                     memo |-> getGroup(m.groups, "M"),
                     category |-> getGroup(m.groups, "L")]>>
                  \o FindAllFrom(optional, lines, m.end)
             ELSE FindAllFrom(optional, lines, i + 1)

\* regex.FindAllStringSubmatch(textBetweenTypes, -1) read through getGroup
FindAllStringSubmatch(lines) == FindAllFrom(OptionalTags, lines, 1)

\* transactionRegex.FindAllStringSubmatch(accountContent, -1) of
\* balance-history, whose pattern has the payee group outside (...)?
BalanceFindAll(lines) == FindAllFrom(BalanceOptionalTags, lines, 1)

\* ------------------------------------------------------------------- inputs
Jan15 == [month |-> <<"1">>, day |-> <<"1", "5">>, year |-> <<"2", "3">>]
Jan16 == [month |-> <<"0", "1">>, day |-> <<"1", "6">>, year |-> <<"2", "3">>]
Feb30 == [month |-> <<"2">>, day |-> <<"3", "0">>, year |-> <<"2", "3">>]
Mar02 == [month |-> <<"3">>, day |-> <<"2">>, year |-> <<"2", "3">>]

Date0116 == <<"2", "0", "2", "3", "-", "0", "1", "-", "1", "6">>

Shop == <<"S", "h", "o", "p">>
FoodTag == <<"F", "o", "o", "d", "/", "T">>
Chk == <<"C", "h", "k">>

\* one regex match of the transaction pattern: the captured groups
Match(d, amount, payee, memo, category) ==
    [month |-> d.month, day |-> d.day, year |-> d.year, amount1 |-> amount,
     payee |-> payee, memo |-> memo, category |-> category]

Amt1000 == <<"1", ",", "0", "0", "0", ".", "5">>
AmtBad == <<"a", "b", "c">>

\* the matches an account section can hold: dates inside and outside the date
\* bounds (before and after), a date that is no calendar date, amounts with a
\* thousands separator, zero and unparseable, a match without payee and category
ExportMatches ==
    {Match(Jan15, Amt1000, Shop, <<>>, FoodTag),
     Match(Jan16, AmtBad, Shop, <<>>, FoodTag),
     Match(Feb30, <<"0">>, Shop, <<>>, FoodTag),
     Match(Jan16, <<"0", ".", "1", "0">>, <<>>, <<"m">>, <<>>),
     Match(Mar02, AmtBad, Shop, <<>>, FoodTag)}

Formats == {"CSV", "JSON", "XML", "MONARCH"}

DateBounds == {<<>>, Date0116}

\* ------------------------------------------------------------------- state
VARIABLES
    flags,          \* the command line: outputFormat, csvColumns, maxRecordsPerFile,
                    \* startDate, endDate, addTagForImport, the mapping tables
    outputFormat,   \* the package variable outputFormat (rewritten for MONARCH)
    columnsToUse,
    pc,             \* where the export is: "start", "open", "loop", "done"
    matched,        \* the regex matches of the account consumed so far
    files,          \* the output files created, in creation order
    records,        \* the []TransactionRecord buffer
    count,
    fileIndex,
    vt,             \* the ValidationTracker's counters
    dailyBalances,  \* balance-history: date -> sum of the amounts of that date
    dateKeys,       \* balance-history: the distinct dates, in order of first use
    balanceRecords, \* balance-history: the series of BalanceRecord
    mu,             \* ValidationTracker.mu: the goroutine holding it, or Unlocked
    calls,          \* per goroutine: the method calls it has still to make
    at,             \* per goroutine: its position inside the current call
    reg,            \* per goroutine: the counter value it has loaded
    ioFailure,      \* the I/O failure the run has met: "none", "missing",
                    \* "unreadable" or "create"
    run,            \* 1 in the first invocation of the command, 2 in the second
    first,          \* what the first invocation was given and what it left
    disk,           \* the files in the output directory when the run started
    call,           \* the function applied last, with its arguments
    ret,            \* what it returned
    history,        \* the ValidationTracker methods called so far, in order
    cwd,            \* the working directory of the process
    opened          \* the files os.Stat and os.ReadFile have resolved, in order

balanceVars == <<dailyBalances, dateKeys, balanceRecords>>

trackerVars == <<mu, calls, at, reg>>

sessionVars == <<ioFailure, run, first, disk>>

pureVars == <<call, ret>>

opsVars == <<history>>

pathVars == <<cwd, opened>>

Unlocked == 0

Goroutines == 1..NumProducers

IdleBalance ==
    /\ dailyBalances = NoMapping
    /\ dateKeys = <<>>
    /\ balanceRecords = <<>>

IdleTracker ==
    /\ mu = Unlocked
    /\ calls = [g \in Goroutines |-> <<>>]
    /\ at = [g \in Goroutines |-> [phase |-> "idle", k |-> 0]]
    /\ reg = [g \in Goroutines |-> 0]

NoFirstRun == [flags |-> <<>>, matched |-> <<>>, files |-> <<>>]

\* one invocation, in an empty output directory, no I/O failure so far
IdleSession ==
    /\ ioFailure = "none"
    /\ run = 1
    /\ first = NoFirstRun
    /\ disk = <<>>

NoCall == [fn |-> "none"]

IdlePure ==
    /\ call = NoCall
    /\ ret = <<>>

IdleOps == history = <<>>

IdlePaths ==
    /\ cwd = <<>>
    /\ opened = <<>>

\* ------------------------------------------------------- ValidationTracker
NewValidationTracker ==
    [MissingPayees |-> 0, MissingCategory |-> 0, ZeroAmounts |-> 0,
     TotalTransactions |-> 0, TotalProcessed |-> 0,
     DuplicateTransactions |-> <<>>,
     UnusedMappings |-> [x \in {} |-> <<>>],
     UnmatchedData |-> [x \in {} |-> 0]]

AddMissingPayee(t) == [t EXCEPT !.MissingPayees = @ + 1]
AddMissingCategory(t) == [t EXCEPT !.MissingCategory = @ + 1]
AddZeroAmount(t) == [t EXCEPT !.ZeroAmounts = @ + 1]
RecordTransaction(t) ==
    [t EXCEPT !.TotalTransactions = @ + 1, !.TotalProcessed = @ + 1]

\* lines 76-81: key := dataType + ":" + value; vt.UnmatchedData[key]++
AddUnmatchedData(t, dataType, value) ==
    LET key == dataType \o <<":">> \o value
        seen == IF key \in DOMAIN t.UnmatchedData THEN t.UnmatchedData[key] ELSE 0
    IN  [t EXCEPT !.UnmatchedData = SetKey(t.UnmatchedData, key, seen + 1)]

\* lines 84-90
RecordUnusedMapping(t, mappingType, values) ==
    IF Len(values) > 0
    THEN [t EXCEPT !.UnusedMappings = SetKey(t.UnusedMappings, mappingType, values)]
    ELSE t

\* lines 93-104
AddDuplicate(t, date, payee, amount, n) ==
    IF n > 1
    THEN [t EXCEPT !.DuplicateTransactions =
                       Append(@, [Date |-> date, Payee |-> payee,
                                  Amount |-> amount, Count |-> n])]
    ELSE t

\* a check that looks at the three counters only
hasWarningsCountersOnly(t) ==
    t.MissingPayees > 0 \/ t.MissingCategory > 0 \/ t.ZeroAmounts > 0

\* lines 108-115
hasWarningsUnlocked(t) ==
    \/ t.MissingPayees > 0
    \/ t.MissingCategory > 0
    \/ t.ZeroAmounts > 0
    \/ Len(t.DuplicateTransactions) > 0
    \/ Cardinality(DOMAIN t.UnusedMappings) > 0
    \/ Cardinality(DOMAIN t.UnmatchedData) > 0

\* lines 118-122: the value HasWarnings returns, computed under the lock
HasWarnings(t) == hasWarningsUnlocked(t)

\* ------------------------------------------------------ transactions export
accountName == Chk

RecordCfg ==
    [payeeMapping |-> flags.payeeMapping, categoryMapping |-> flags.categoryMapping,
     tagMapping |-> flags.tagMapping, addTagForImport |-> flags.addTagForImport,
     outputAccountName |->
         IF accountName \in DOMAIN flags.accountMapping
            /\ Len(flags.accountMapping[accountName]) > 0
         THEN flags.accountMapping[accountName] ELSE accountName]

\* lines 383-389
Ext(format) ==
    CASE ToUpper(format) = "JSON" -> ".json"
      [] ToUpper(format) = "XML" -> ".xml"
      [] OTHER -> ".csv"

\* line 392 and line 566: fmt.Sprintf("%s_%d%s", accountName, fileIndex, ext)
FileName(account, index, ext) == [account |-> account, index |-> index, ext |-> ext]

\* lines 405-414: what is written to the first file when it is created
FirstFileFraming(format, columns) ==
    (IF ToUpper(format) = "XML" THEN <<XmlHeaderItem>> ELSE <<>>)
    \o (IF ToUpper(format) = "CSV" THEN <<CsvHeaderItem(columns)>> ELSE <<>>)

\* a split that forgets the column header row
SplitFileFramingNoHeader(format, columns) ==
    IF ToUpper(format) = "XML" THEN <<XmlHeaderItem>> ELSE <<>>

\* lines 580-590: what is written to a split file when it is created
SplitFileFraming(format, columns) ==
    (IF ToUpper(format) = "XML" THEN <<XmlHeaderItem>> ELSE <<>>)
    \o (IF ToUpper(format) = "CSV" THEN <<CsvHeaderItem(columns)>> ELSE <<>>)

\* a split that forgets to advance the sequence number
NextFileIndexStuck(i) == i

\* line 565
NextFileIndex(i) == i + 1

\* line 547
SplitDue(cap, n) == cap # 0 /\ n % cap = 0

\* what the output directory held under this name when the run started
OnDisk(name) ==
    IF \E i \in 1..Len(disk) : disk[i].name = name
    THEN disk[CHOOSE i \in 1..Len(disk) : disk[i].name = name].content
    ELSE <<>>

\* an open that keeps what the file held (O_APPEND where os.Create has O_TRUNC)
NewFileNoTruncate(name, content) ==
    [name |-> name, content |-> OnDisk(name) \o content, open |-> TRUE]

\* os.Create: the file is created, or truncated when it exists
NewFile(name, content) == [name |-> name, content |-> content, open |-> TRUE]

\* a write to the current (last created) file
WriteCurrent(fs, items) == [fs EXCEPT ![Len(fs)].content = @ \o items]

CloseCurrent(fs) == [fs EXCEPT ![Len(fs)].open = FALSE]

\* a split that closes the file without writing the buffered records
SplitFlushNothing(format, recs) == <<>>

\* lines 549-561: what closing the current file at a split writes to it
SplitFlush(format, recs) ==
    IF ToUpper(format) = "JSON" THEN <<JsonArrayItem(recs)>>
    ELSE IF ToUpper(format) = "XML" THEN <<XmlRootItem(recs)>>
    ELSE <<>>

\* lines 595-607: what closing the last file writes to it
FinalFlush(format, recs) ==
    IF ToUpper(format) = "JSON" /\ Len(recs) > 0 THEN <<JsonArrayItem(recs)>>
    ELSE IF ToUpper(format) = "XML" /\ Len(recs) > 0 THEN <<XmlRootItem(recs)>>
    ELSE <<>>

\* lines 512-522
TrackRecord(t, r) ==
    LET t1 == RecordTransaction(t)
        t2 == IF r.Merchant = <<>> THEN AddMissingPayee(t1) ELSE t1
        t3 == IF r.Category = <<>> THEN AddMissingCategory(t2) ELSE t2
    IN  IF r.Amount = <<"0", ".", "0", "0">> \/ r.Amount = <<"0">>
        THEN AddZeroAmount(t3) ELSE t3

\* "Merchant,Amount": a --csvColumns value other than the default
MinimalColumns == <<"Merchant", "Amount">>

InitExport ==
    /\ flags \in [outputFormat : Formats,
                  csvColumns : {DefaultMonarchColumns},
                  maxRecordsPerFile : 0..MaxCap,
                  startDate : DateBounds,
                  endDate : DateBounds,
                  addTagForImport : {TRUE},
                  payeeMapping : {NoMapping},
                  categoryMapping : {NoMapping},
                  tagMapping : {NoMapping},
                  accountMapping : {NoMapping}]
    /\ outputFormat = flags.outputFormat
    /\ columnsToUse = flags.csvColumns
    /\ pc = "start"
    /\ matched = <<>>
    /\ files = <<>>
    /\ records = <<>>
    /\ count = 0
    /\ fileIndex = 0
    /\ vt = NewValidationTracker
    /\ IdleBalance
    /\ IdleTracker
    /\ IdleSession
    /\ IdlePure
    /\ IdleOps
    /\ IdlePaths

\* what the process exits with: os.Exit(1) where the code calls it, else the 0
\* of a Run that returns (root.go lines 33-37)
ExitStatus == IF pc = "exit" THEN 1 ELSE 0

\* lines 218-222: os.Stat(inputFile); a missing file ends the process
StatInputFile(exists) ==
    /\ pc = "start"
    /\ IF exists
       THEN pc' = "format" /\ ioFailure' = ioFailure
       ELSE pc' = "exit" /\ ioFailure' = "missing"
    /\ UNCHANGED <<flags, outputFormat, columnsToUse, matched, files, records, count,
                   fileIndex, vt, run, first, disk>>
    /\ UNCHANGED <<balanceVars, trackerVars, pureVars, opsVars, pathVars>>

\* the selection that leaves the --csvColumns value in use for MONARCH
SelectFormatKeepColumns ==
    /\ pc = "format"
    /\ IF ToUpper(outputFormat) = "MONARCH"
       THEN outputFormat' = "CSV" /\ columnsToUse' = flags.csvColumns
       ELSE outputFormat' = outputFormat /\ columnsToUse' = flags.csvColumns
    /\ pc' = "read"
    /\ UNCHANGED <<flags, matched, files, records, count, fileIndex, vt>>
    /\ UNCHANGED <<balanceVars, trackerVars, sessionVars, pureVars, opsVars, pathVars>>

\* lines 237-244: MONARCH is CSV with the default columns
SelectFormat ==
    /\ pc = "format"
    /\ IF ToUpper(outputFormat) = "MONARCH"
       THEN outputFormat' = "CSV" /\ columnsToUse' = DefaultMonarchColumns
       ELSE outputFormat' = outputFormat /\ columnsToUse' = flags.csvColumns
    /\ pc' = "read"
    /\ UNCHANGED <<flags, matched, files, records, count, fileIndex, vt>>
    /\ UNCHANGED <<balanceVars, trackerVars, sessionVars, pureVars, opsVars, pathVars>>

\* lines 315-335 and 611-642: os.ReadFile; on an error the message is printed
\* and the run goes on with empty content: no account block, then the summary
ReadInputFile(readable) ==
    /\ pc = "read"
    /\ IF readable
       THEN pc' = "open" /\ ioFailure' = ioFailure
       ELSE pc' = "done" /\ ioFailure' = "unreadable"
    /\ UNCHANGED <<flags, outputFormat, columnsToUse, matched, files, records, count,
                   fileIndex, vt, run, first, disk>>
    /\ UNCHANGED <<balanceVars, trackerVars, pureVars, opsVars, pathVars>>

\* lines 378-414: the account's first file; Run returns when os.Create fails
OpenFirstFile(created) ==
    /\ pc = "open"
    /\ fileIndex' = 1
    /\ count' = 0
    /\ records' = <<>>
    /\ IF created
       THEN /\ files' = <<NewFile(FileName(accountName, 1, Ext(outputFormat)),
                                  FirstFileFraming(outputFormat, columnsToUse))>>
            /\ pc' = "loop"
            /\ ioFailure' = ioFailure
       ELSE /\ files' = files
            /\ pc' = "returned"
            /\ ioFailure' = "create"
    /\ UNCHANGED <<flags, outputFormat, columnsToUse, matched, vt, run, first, disk>>
    /\ UNCHANGED <<balanceVars, trackerVars, pureVars, opsVars, pathVars>>

\* the second invocation reads the file the first one read
NextInInput(t) ==
    \/ run = 1
    \/ Len(matched) < Len(first.matched) /\ t = first.matched[Len(matched) + 1]

InputExhausted == run = 1 \/ Len(matched) = Len(first.matched)

\* lines 441-592: one iteration of the loop over the matches; Run returns when
\* the os.Create of a split file fails
ProcessTransaction(t, created) ==
    /\ pc = "loop"
    /\ Len(matched) < MaxTxns
    /\ NextInInput(t)
    /\ matched' = Append(matched, t)
    /\ \E record \in {BuildRecord(t, RecordCfg)} :
          IF ~InDateRange(record.Date, flags.startDate, flags.endDate)
          THEN UNCHANGED <<files, records, count, fileIndex, vt, pc, ioFailure>>
          ELSE LET isJson == ToUpper(outputFormat) = "JSON"
                   recs1 == IF isJson THEN Append(records, record) ELSE records
                   files1 == IF isJson THEN files
                             ELSE WriteCurrent(files, <<RowItem(record, columnsToUse)>>)
               IN  /\ vt' = TrackRecord(vt, record)
                   /\ count' = count + 1
                   /\ IF SplitDue(flags.maxRecordsPerFile, count + 1)
                      THEN /\ records' = IF ToUpper(outputFormat) \in {"JSON", "XML"}
                                         THEN <<>> ELSE recs1
                           /\ fileIndex' = NextFileIndex(fileIndex)
                           /\ \E closed \in {CloseCurrent(WriteCurrent(files1,
                                                 SplitFlush(outputFormat, recs1)))} :
                                IF created
                                THEN /\ files' =
                                          Append(closed,
                                                 NewFile(FileName(accountName,
                                                                  NextFileIndex(fileIndex),
                                                                  Ext(outputFormat)),
                                                         SplitFileFraming(outputFormat,
                                                                          columnsToUse)))
                                     /\ UNCHANGED <<pc, ioFailure>>
                                ELSE /\ files' = closed
                                     /\ pc' = "returned"
                                     /\ ioFailure' = "create"
                      ELSE /\ records' = recs1
                           /\ files' = files1
                           /\ fileIndex' = fileIndex
                           /\ UNCHANGED <<pc, ioFailure>>
    /\ UNCHANGED <<flags, outputFormat, columnsToUse, run, first, disk>>
    /\ UNCHANGED <<balanceVars, trackerVars, pureVars, opsVars, pathVars>>

\* lines 595-608: after the last match
CloseAccount ==
    /\ pc = "loop"
    /\ InputExhausted
    /\ files' = CloseCurrent(WriteCurrent(files, FinalFlush(outputFormat, records)))
    /\ records' = IF ToUpper(outputFormat) \in {"JSON", "XML"} /\ Len(records) > 0
                  THEN <<>> ELSE records
    /\ pc' = "done"
    /\ UNCHANGED <<flags, outputFormat, columnsToUse, matched, count, fileIndex, vt>>
    /\ UNCHANGED <<balanceVars, trackerVars, sessionVars, pureVars, opsVars, pathVars>>

Next ==
    \/ \E exists \in BOOLEAN : StatInputFile(exists)
    \/ SelectFormat
    \/ \E readable \in BOOLEAN : ReadInputFile(readable)
    \/ \E created \in BOOLEAN : OpenFirstFile(created)
    \/ \E t \in ExportMatches : \E created \in BOOLEAN : ProcessTransaction(t, created)
    \/ CloseAccount

vars == <<flags, outputFormat, columnsToUse, pc, matched, files, records, count,
          fileIndex, vt, dailyBalances, dateKeys, balanceRecords, mu, calls, at, reg,
          ioFailure, run, first, disk, call, ret, history, cwd, opened>>

Spec == InitExport /\ [][Next]_vars

\* ------------------------------------------- the export run a second time
\* the transactions of the input file of the two runs
RerunMatches ==
    {Match(Jan15, Amt1000, Shop, <<>>, FoodTag),
     Match(Jan16, <<"0", ".", "1", "0">>, <<>>, <<"m">>, <<>>),
     Match(Mar02, <<"0">>, <<"a", "\"", "b">>, <<>>, <<"F">>)}

InitRerun ==
    /\ flags \in [outputFormat : Formats,
                  csvColumns : {DefaultMonarchColumns, MinimalColumns},
                  maxRecordsPerFile : 0..MaxCap,
                  startDate : {<<>>},
                  endDate : {<<>>},
                  addTagForImport : {TRUE},
                  payeeMapping : {NoMapping},
                  categoryMapping : {NoMapping},
                  tagMapping : {NoMapping},
                  accountMapping : {NoMapping}]
    /\ outputFormat = flags.outputFormat
    /\ columnsToUse = flags.csvColumns
    /\ pc = "start"
    /\ matched = <<>>
    /\ files = <<>>
    /\ records = <<>>
    /\ count = 0
    /\ fileIndex = 0
    /\ vt = NewValidationTracker
    /\ IdleBalance
    /\ IdleTracker
    /\ IdleSession
    /\ IdlePure
    /\ IdleOps
    /\ IdlePaths

\* the configurations of a second run: the same one, and for a MONARCH run
\* also CSV with the default column list
SecondConfigs ==
    {flags} \cup (IF ToUpper(flags.outputFormat) = "MONARCH"
                  THEN {[flags EXCEPT !.outputFormat = "CSV",
                                      !.csvColumns = DefaultMonarchColumns]}
                  ELSE {})

\* the command is started again, as a new process, on the same input file and
\* the same output directory, which holds what the first run left there
Rerun(cfg) ==
    /\ pc = "done"
    /\ run = 1
    /\ ioFailure = "none"
    /\ first' = [flags |-> flags, matched |-> matched, files |-> files]
    /\ disk' = files
    /\ run' = 2
    /\ flags' = cfg
    /\ outputFormat' = cfg.outputFormat
    /\ columnsToUse' = cfg.csvColumns
    /\ pc' = "start"
    /\ matched' = <<>>
    /\ files' = <<>>
    /\ records' = <<>>
    /\ count' = 0
    /\ fileIndex' = 0
    /\ vt' = NewValidationTracker
    /\ UNCHANGED ioFailure
    /\ UNCHANGED <<balanceVars, trackerVars, pureVars, opsVars, pathVars>>

NextRerun ==
    \/ StatInputFile(TRUE)
    \/ SelectFormat
    \/ ReadInputFile(TRUE)
    \/ OpenFirstFile(TRUE)
    \/ \E t \in RerunMatches : ProcessTransaction(t, TRUE)
    \/ CloseAccount
    \/ \E cfg \in SecondConfigs : Rerun(cfg)

SpecRerun == InitRerun /\ [][NextRerun]_vars

SecondRunDone == run = 2 /\ pc = "done"

\* C16: the files a MONARCH run writes are the files (names, contents, order)
\* that a CSV run with the default column list writes from the same input.
C16_MonarchEqualsCsvDefault ==
    (/\ SecondRunDone
     /\ ToUpper(first.flags.outputFormat) = "MONARCH"
     /\ ToUpper(flags.outputFormat) = "CSV"
     /\ flags.csvColumns = DefaultMonarchColumns) =>
        files = first.files

\* a MONARCH run given another --csvColumns value, with a split, then the CSV
\* run
C16_Witness ==
    /\ SecondRunDone
    /\ first.flags.outputFormat = "MONARCH"
    /\ first.flags.csvColumns = MinimalColumns
    /\ flags.outputFormat = "CSV"
    /\ Len(files) >= 2
    /\ Len(matched) >= 2

\* C17: a second run with the same input and the same configuration leaves
\* the same files: same names, same contents in the same order, same
\* boundaries between the files.
C17_RerunIdentical ==
    (SecondRunDone /\ flags = first.flags) => files = first.files

\* the second run overwrote files of the first that held records and a split
C17_Witness ==
    /\ SecondRunDone
    /\ flags = first.flags
    /\ Len(disk) >= 2
    /\ Len(matched) = MaxTxns
    /\ \A i \in 1..Len(files) : OnDisk(files[i].name) = files[i].content

\* ------------------------------------------------- transactions export claims
AmountParses(t) == ParseFloat(RemoveChar(TrimSpace(t.amount1), ",")).ok

Admitted(t) ==
    InDateRange(BuildRecord(t, RecordCfg).Date, flags.startDate, flags.endDate)

\* the records of the admitted matches, in source order
AdmittedRecords ==
    LET adm == SelectSeq(matched, Admitted)
    IN  [i \in 1..Len(adm) |-> BuildRecord(adm[i], RecordCfg)]

CeilDiv(n, k) == (n + k - 1) \div k

Min(a, b) == IF a < b THEN a ELSE b

RECURSIVE ItemRecordCount(_)
\* the number of records a file's items carry: rows and array or root elements
ItemRecordCount(items) ==
    IF items = <<>> THEN 0
    ELSE (IF Head(items).kind = "row" THEN 1 ELSE Len(Head(items).recs))
         + ItemRecordCount(Tail(items))

\* the admitted records that arrived while file i was the current file
FilePortion(i) ==
    LET k == flags.maxRecordsPerFile
        n == Len(AdmittedRecords)
    IN  IF k = 0 THEN AdmittedRecords
        ELSE SubSeq(AdmittedRecords, (i - 1) * k + 1, Min(i * k, n))

IsClosed(i) == ~files[i].open

\* C1: when the export of the account is done, the number of files is
\* ceil(N/k) for N admitted transactions and cap k (1 when k = 0), and every
\* file but the last holds exactly k records.  Stated for N >= 1.
C1_FileCount ==
    (pc = "done" /\ Len(AdmittedRecords) >= 1) =>
        LET k == flags.maxRecordsPerFile
            n == Len(AdmittedRecords)
        IN  /\ Len(files) = (IF k = 0 THEN 1 ELSE CeilDiv(n, k))
            /\ \A i \in 1..(Len(files) - 1) : ItemRecordCount(files[i].content) = k

\* C2: with XML output every closed file is the XML prologue followed by one
\* root element holding one child per record written to that file.  Stated
\* for N >= 1 admitted transactions.
C2_XmlDocument ==
    (ToUpper(flags.outputFormat) = "XML" /\ Len(AdmittedRecords) >= 1) =>
        \A i \in 1..Len(files) :
            IsClosed(i) => files[i].content = <<XmlHeaderItem, XmlRootItem(FilePortion(i))>>

\* C3: with JSON output every closed file received a single JSON array whose
\* elements are the records admitted while it was the current file, in order.
\* Stated for N >= 1 admitted transactions.
C3_JsonArray ==
    (ToUpper(flags.outputFormat) = "JSON" /\ Len(AdmittedRecords) >= 1) =>
        \A i \in 1..Len(files) :
            IsClosed(i) => files[i].content = <<JsonArrayItem(FilePortion(i))>>

\* C4: with CSV or MONARCH output every file created starts with the column
\* header row, and everything after it is a record row (the header occurs
\* once, before any record).
C4_HeaderFirst ==
    ToUpper(flags.outputFormat) \in {"CSV", "MONARCH"} =>
        \A i \in 1..Len(files) :
            /\ files[i].content # <<>>
            /\ files[i].content[1] = CsvHeaderItem(columnsToUse)
            /\ \A j \in 2..Len(files[i].content) : files[i].content[j].kind = "row"

C4_Witness ==
    /\ flags.outputFormat = "MONARCH"
    /\ Len(files) >= 2
    /\ Len(files[1].content) >= 2
    /\ Len(files[2].content) >= 2

\* C5: the i-th file created for the account is named
\* {accountName}_{i}.{ext}: numbering starts at 1 and each split adds one.
C5_FileNames ==
    \A i \in 1..Len(files) : files[i].name = FileName(accountName, i, Ext(outputFormat))

C5_Witness == Len(files) >= 3 /\ pc = "done"

\* C10: a match whose amount text does not parse is rejected: no row and no
\* array element is written for it, so its raw amount text reaches no file.
C10_BadAmountRejected ==
    \A m \in 1..Len(matched) :
        ~AmountParses(matched[m]) =>
            LET r == BuildRecord(matched[m], RecordCfg)
            IN  \A i \in 1..Len(files) : \A j \in 1..Len(files[i].content) :
                    LET item == files[i].content[j]
                    IN  /\ ~(item.kind = "row" /\ item.cells = buildCSVRow(r, columnsToUse))
                        /\ \A e \in 1..Len(item.recs) : item.recs[e] # r

MatchDate(t) == CanonicalDate(TrimSpace(t.month), TrimSpace(t.day), TrimSpace(t.year))

\* month, day and year of the match name a day of the calendar
ValidCalendarDate(t) ==
    LET y == 2000 + DigitsValue(TrimSpace(t.year))
        m == DigitsValue(TrimSpace(t.month))
        d == DigitsValue(TrimSpace(t.day))
    IN  m \in 1..12 /\ d >= 1 /\ d <= DaysIn(y, m)

\* record r is in an output file, or buffered for one
Written(r) ==
    \/ \E i \in 1..Len(files) : \E j \in 1..Len(files[i].content) :
          LET item == files[i].content[j]
          IN  \/ item.kind = "row" /\ item.cells = buildCSVRow(r, columnsToUse)
              \/ \E e \in 1..Len(item.recs) : item.recs[e] = r
    \/ \E e \in 1..Len(records) : records[e] = r

\* the transactions the tracker has counted beyond the admitted ones
RejectionEvents == vt.TotalTransactions - Len(AdmittedRecords)

\* C11: a match whose date is no calendar date is rejected whatever startDate
\* and endDate are: its record reaches no output file, and a validation event
\* is recorded for it.
C11_InvalidDateRejected ==
    \A m \in 1..Len(matched) :
        ~ValidCalendarDate(matched[m]) =>
            /\ ~Written(BuildRecord(matched[m], RecordCfg))
            /\ RejectionEvents > 0

\* the canonical date is not before startDate and not after endDate, an
\* absent bound admitting every date
InWindow(t) ==
    /\ flags.startDate = <<>> \/ ~StrLess(MatchDate(t), flags.startDate)
    /\ flags.endDate = <<>> \/ ~StrLess(flags.endDate, MatchDate(t))

\* C12: when the export has completed, a match with a valid date has its
\* record in the output if and only if its canonical date is not strictly
\* before startDate and not strictly after endDate.
C12_DateWindow ==
    pc = "done" =>
        \A m \in 1..Len(matched) :
            ValidCalendarDate(matched[m]) =>
                (Written(BuildRecord(matched[m], RecordCfg)) <=> InWindow(matched[m]))

\* a window of one day: the match of that day is written, those of the day
\* before and of a later day are not
C12_Witness ==
    /\ pc = "done"
    /\ flags.startDate = Date0116 /\ flags.endDate = Date0116
    /\ \E m \in 1..Len(matched) :
          MatchDate(matched[m]) = Date0116 /\ Written(BuildRecord(matched[m], RecordCfg))
    /\ \E m \in 1..Len(matched) : StrLess(MatchDate(matched[m]), Date0116)
    /\ \E m \in 1..Len(matched) :
          ValidCalendarDate(matched[m]) /\ StrLess(Date0116, MatchDate(matched[m]))

\* C19: once the input file could not be read or an output file (the first or
\* a split file) could not be created, the process has terminated with a
\* non-zero exit status.
C19_FatalExit == ioFailure # "none" => ExitStatus # 0

\* ---------------------------------------------------------- balance history
Amt010 == <<"0", ".", "1", "0">>
Amt020 == <<"0", ".", "2", "0">>
AmtNeg030 == <<"-", "0", ".", "3", "0">>
Amt030 == <<"0", ".", "3", "0">>

\* the matches of the selected account; day may carry the leading space the
\* pattern allows
BalanceMatches ==
    {Match(Jan16, Amt010, Shop, <<>>, FoodTag),
     Match(Mar02, Amt020, Shop, <<>>, FoodTag),
     Match(Jan15, AmtNeg030, Shop, <<>>, FoodTag),
     Match(Jan15, AmtBad, Shop, <<>>, FoodTag),
     Match([Mar02 EXCEPT !.day = <<" ", "2">>], Amt010, Shop, <<>>, FoodTag)}

AnchorTexts == {<<>>, <<"0">>, Amt030, AmtBad}

BalanceFileName(account, index) ==
    [account |-> account, stem |-> "_balance_history_", index |-> index, ext |-> ".csv"]

BalanceHeaderItem ==
    [kind |-> "csvHeader", cols |-> <<"Date", "Balance">>, cells |-> <<>>, recs |-> <<>>]

\* line 370: fmt.Sprintf("%s,%s\n", record.Date, record.Balance)
BalanceLineItem(record) ==
    [kind |-> "row", cols |-> <<>>, cells |-> <<record.Date, record.Balance>>, recs |-> <<>>]

Swap(d, i, j) == [d EXCEPT ![i] = d[j], ![j] = d[i]]

RECURSIVE SortInner(_, _, _)
SortInner(d, i, j) ==
    IF j > Len(d) THEN d
    ELSE SortInner(IF StrLess(d[j], d[i]) THEN Swap(d, i, j) ELSE d, i, j + 1)

RECURSIVE SortOuter(_, _)
SortOuter(d, i) == IF i > Len(d) THEN d ELSE SortOuter(SortInner(d, i, i + 1), i + 1)

\* a sort that is left out: the dates stay in order of first use
sortDatesSkipped(dates) == dates

\* sortDates: the exchange sort of lines 453-461
sortDates(dates) == SortOuter(dates, 1)

RECURSIVE RunningBalances(_, _, _)
\* lines 318-324 and 335-341: add each date's delta, emit after the update
RunningBalances(balance, daily, keys) ==
    IF keys = <<>> THEN <<>>
    ELSE LET b == FAdd(balance, daily[Head(keys)])
         IN  <<[Date |-> Head(keys), Balance |-> Sprintf2(b)]>>
             \o RunningBalances(b, daily, Tail(keys))

RECURSIVE SumInOrder(_, _, _)
\* lines 328-331: totalChange accumulated over the map in iteration order
SumInOrder(total, daily, order) ==
    IF order = <<>> THEN total
    ELSE SumInOrder(FAdd(total, daily[Head(order)]), daily, Tail(order))

\* the orders in which a range over a map with these keys can visit them
IterationOrders(keys) ==
    {o \in [1..Cardinality(keys) -> keys] : \A i, j \in DOMAIN o : i # j => o[i] # o[j]}

\* lines 316-324
ForwardSeries(openingFloat, daily, keys) == RunningBalances(openingFloat, daily, keys)

\* lines 325-342
BackwardSeries(currentFloat, daily, keys, order) ==
    RunningBalances(FSub(currentFloat, SumInOrder(PosZero, daily, order)), daily, keys)

RECURSIVE WriteBalanceFiles(_, _, _, _, _)
\* lines 369-404: the write loop with its split, then the final Close
WriteBalanceFiles(fs, recs, cnt, index, cap) ==
    IF recs = <<>> THEN CloseCurrent(fs)
    ELSE LET fs1 == WriteCurrent(fs, <<BalanceLineItem(Head(recs))>>)
         IN  IF SplitDue(cap, cnt + 1)
             THEN WriteBalanceFiles(
                      Append(CloseCurrent(fs1),
                             NewFile(BalanceFileName(accountName, index + 1),
                                     <<BalanceHeaderItem>>)),
                      Tail(recs), cnt + 1, index + 1, cap)
             ELSE WriteBalanceFiles(fs1, Tail(recs), cnt + 1, index, cap)

InitBalance ==
    /\ flags \in [currentBalance : AnchorTexts,
                  openingBalance : AnchorTexts,
                  maxRecordsPerFile : 0..MaxCap,
                  startDate : DateBounds,
                  endDate : {<<>>}]
    /\ outputFormat = "CSV"
    /\ columnsToUse = <<"Date", "Balance">>
    /\ pc = "prerun"
    /\ matched = <<>>
    /\ files = <<>>
    /\ records = <<>>
    /\ count = 0
    /\ fileIndex = 0
    /\ vt = NewValidationTracker
    /\ IdleBalance
    /\ IdleTracker
    /\ IdleSession
    /\ IdlePure
    /\ IdleOps
    /\ IdlePaths

\* a PreRun that does not try to parse the anchor
BalancePreRunNoParse ==
    /\ pc = "prerun"
    /\ LET hasCurrentBalance == flags.currentBalance # <<>>
           hasOpeningBalance == flags.openingBalance # <<>>
       IN  IF (~hasCurrentBalance /\ ~hasOpeningBalance)
              \/ (hasCurrentBalance /\ hasOpeningBalance)
           THEN pc' = "exit"
           ELSE pc' = "scan"
    /\ UNCHANGED <<flags, outputFormat, columnsToUse, matched, files, records, count,
                   fileIndex, vt>>
    /\ UNCHANGED <<balanceVars, trackerVars, sessionVars, pureVars, opsVars, pathVars>>

\* PreRun, lines 88-111: exactly one anchor, and it parses
BalancePreRun ==
    /\ pc = "prerun"
    /\ LET hasCurrentBalance == flags.currentBalance # <<>>
           hasOpeningBalance == flags.openingBalance # <<>>
           balanceStr == IF flags.openingBalance # <<>> THEN flags.openingBalance
                         ELSE flags.currentBalance
       IN  IF (~hasCurrentBalance /\ ~hasOpeningBalance)
              \/ (hasCurrentBalance /\ hasOpeningBalance)
              \/ ~ParseFloat(balanceStr).ok
           THEN pc' = "exit"
           ELSE pc' = "scan"
    /\ UNCHANGED <<flags, outputFormat, columnsToUse, matched, files, records, count,
                   fileIndex, vt>>
    /\ UNCHANGED <<balanceVars, trackerVars, sessionVars, pureVars, opsVars, pathVars>>

\* lines 245-300: one iteration of the loop over the matches
BalanceScan(t) ==
    /\ pc = "scan"
    /\ Len(matched) < MaxTxns
    /\ matched' = Append(matched, t)
    /\ \E parsed \in {ParseFloat(RemoveChar(TrimSpace(t.amount1), ","))} :
       \E fullDate \in {CanonicalDate(TrimSpace(t.month), TrimSpace(t.day),
                                      TrimSpace(t.year))} :
          IF ~parsed.ok
          THEN UNCHANGED <<vt, dailyBalances, dateKeys>>
          ELSE /\ vt' = IF parsed.val.m = 0 THEN AddZeroAmount(RecordTransaction(vt))
                        ELSE RecordTransaction(vt)
               /\ IF ~InDateRange(fullDate, flags.startDate, flags.endDate)
                  THEN UNCHANGED <<dailyBalances, dateKeys>>
                  ELSE /\ dailyBalances' =
                            IF fullDate \in DOMAIN dailyBalances
                            THEN [dailyBalances EXCEPT
                                     ![fullDate] = FAdd(@, parsed.val)]
                            ELSE [d \in DOMAIN dailyBalances \cup {fullDate} |->
                                     IF d = fullDate THEN FAdd(PosZero, parsed.val)
                                     ELSE dailyBalances[d]]
                       /\ dateKeys' = IF \E i \in 1..Len(dateKeys) : dateKeys[i] = fullDate
                                      THEN dateKeys ELSE Append(dateKeys, fullDate)
    /\ UNCHANGED <<flags, outputFormat, columnsToUse, pc, files, records, count,
                   fileIndex, balanceRecords>>
    /\ UNCHANGED <<trackerVars, sessionVars, pureVars, opsVars, pathVars>>

\* lines 302-305: nothing admitted, nothing written
BalanceEmpty ==
    /\ pc = "scan"
    /\ DOMAIN dailyBalances = {}
    /\ pc' = "done"
    /\ UNCHANGED <<flags, outputFormat, columnsToUse, matched, files, records, count,
                   fileIndex, vt>>
    /\ UNCHANGED <<balanceVars, trackerVars, sessionVars, pureVars, opsVars, pathVars>>

\* lines 307-404: sort, compute the running balances, write the files
BalanceWrite ==
    /\ pc = "scan"
    /\ DOMAIN dailyBalances # {}
    /\ \E order \in IterationOrders(DOMAIN dailyBalances) :
       \E keys \in {sortDates(dateKeys)} :
       \E balanceFloat \in {ParseFloat(flags.currentBalance \o flags.openingBalance).val} :
       \E series \in {IF flags.openingBalance # <<>>
                      THEN ForwardSeries(balanceFloat, dailyBalances, keys)
                      ELSE BackwardSeries(balanceFloat, dailyBalances, keys, order)} :
          /\ dateKeys' = keys
          /\ balanceRecords' = series
          /\ files' = WriteBalanceFiles(
                          <<NewFile(BalanceFileName(accountName, 1), <<BalanceHeaderItem>>)>>,
                          series, 0, 1, flags.maxRecordsPerFile)
          /\ count' = Len(series)
          /\ fileIndex' = Len(files')
    /\ pc' = "done"
    /\ UNCHANGED <<flags, outputFormat, columnsToUse, matched, records, vt, dailyBalances>>
    /\ UNCHANGED <<trackerVars, sessionVars, pureVars, opsVars, pathVars>>

NextBalance ==
    \/ BalancePreRun
    \/ \E t \in BalanceMatches : BalanceScan(t)
    \/ BalanceEmpty
    \/ BalanceWrite

SpecBalance == InitBalance /\ [][NextBalance]_vars

\* ---------------------------------------------------- balance history claims
\* the exact value, in hundredths, of a decimal text with at most two
\* fractional digits
CentsOf(text) ==
    LET s == RemoveChar(TrimSpace(text), ",")
        negative == s # <<>> /\ Head(s) = "-"
        body == IF s # <<>> /\ Head(s) \in {"-", "+"} THEN Tail(s) ELSE s
        ip == DigitPrefix(body)
        fp == IF Len(ip) < Len(body) THEN SubSeq(body, Len(ip) + 2, Len(body)) ELSE <<>>
        fp2 == SubSeq(fp \o <<"0", "0">>, 1, 2)
        mag == 100 * DigitsValue(ip) + DigitsValue(fp2)
    IN  IF negative THEN -mag ELSE mag

\* the decimal text of a number of hundredths
CentsText(c) ==
    LET mag == IF c < 0 THEN -c ELSE c
    IN  (IF c < 0 THEN <<"-">> ELSE <<>>) \o NatText(mag \div 100)
        \o <<".", Digits[((mag \div 10) % 10) + 1], Digits[(mag % 10) + 1]>>

\* the matches balance-history accumulates: amount parses, date within bounds
Accumulated(t) ==
    AmountParses(t) /\ InDateRange(MatchDate(t), flags.startDate, flags.endDate)

RECURSIVE SumCents(_)
SumCents(ms) ==
    IF ms = <<>> THEN 0
    ELSE (IF Accumulated(Head(ms)) THEN CentsOf(Head(ms).amount1) ELSE 0) + SumCents(Tail(ms))

BackwardDone == pc = "done" /\ flags.currentBalance # <<>> /\ balanceRecords # <<>>

\* C6: in backward mode the balance emitted for the latest date is the
\* supplied currentBalance (as two-decimal text).
C6_FinalBalance ==
    BackwardDone =>
        balanceRecords[Len(balanceRecords)].Balance
            = Sprintf2(ParseFloat(flags.currentBalance).val)

\* C7: the series of a backward run equals the series forward mode computes
\* from the same daily deltas with openingBalance = currentBalance - sum(d).
C7_ForwardEqualsBackward ==
    BackwardDone =>
        balanceRecords =
            ForwardSeries(
                ParseFloat(CentsText(CentsOf(flags.currentBalance) - SumCents(matched))).val,
                dailyBalances, dateKeys)

RECURSIVE RowCells(_)
RowCells(items) ==
    IF items = <<>> THEN <<>>
    ELSE (IF Head(items).kind = "row" THEN <<Head(items).cells>> ELSE <<>>)
         \o RowCells(Tail(items))

RECURSIVE WrittenLines(_)
\* the record lines of the files, in file order
WrittenLines(fs) ==
    IF fs = <<>> THEN <<>> ELSE RowCells(Head(fs).content) \o WrittenLines(Tail(fs))

\* exactly one of the two anchors is supplied, and it parses as a number
OneValidAnchor ==
    LET cur == flags.currentBalance
        open == flags.openingBalance
    IN  \/ cur # <<>> /\ open = <<>> /\ ParseFloat(cur).ok
        \/ cur = <<>> /\ open # <<>> /\ ParseFloat(open).ok

\* C18: balance-history goes past its pre-run checks only with exactly one
\* anchor that parses; with both, neither or an unparseable one the process
\* exits with status 1, no match read and no file created.
C18_AnchorValidated ==
    /\ pc \notin {"prerun", "exit"} => OneValidAnchor
    /\ pc = "exit" => ~OneValidAnchor /\ ExitStatus = 1
    /\ ~OneValidAnchor => pc \in {"prerun", "exit"} /\ matched = <<>> /\ files = <<>>

\* the run with a single anchor that does not parse has exited
C18_Witness ==
    /\ pc = "exit"
    /\ flags.currentBalance = AmtBad
    /\ flags.openingBalance = <<>>

\* C8: the series written is in strictly ascending date order (so one line
\* per date), and its dates are exactly the dates of the accumulated matches.
C8_SeriesOrdered ==
    pc = "done" =>
        LET lines == WrittenLines(files)
        IN  /\ \A i \in 1..(Len(lines) - 1) : StrLess(lines[i][1], lines[i + 1][1])
            /\ {lines[i][1] : i \in 1..Len(lines)}
                 = {MatchDate(matched[m]) : m \in {n \in 1..Len(matched) : Accumulated(matched[n])}}

\* three dates written, met in the input in an order that is not ascending
C8_Witness ==
    /\ pc = "done"
    /\ Len(WrittenLines(files)) = 3
    /\ \E i, j \in 1..Len(matched) :
          /\ i < j
          /\ Accumulated(matched[i]) /\ Accumulated(matched[j])
          /\ StrLess(MatchDate(matched[j]), MatchDate(matched[i]))

\* ------------------------------------------- ValidationTracker, concurrently
\* the counters a method increments, in order (validation.go lines 47-73)
Increments(method) ==
    CASE method = "RecordTransaction" -> <<"TotalTransactions", "TotalProcessed">>
      [] method = "AddMissingPayee" -> <<"MissingPayees">>
      [] method = "AddMissingCategory" -> <<"MissingCategory">>
      [] method = "AddZeroAmount" -> <<"ZeroAmounts">>

\* the body of one producer goroutine of TestValidationTrackerConcurrency
ProducerCalls == <<"RecordTransaction", "AddMissingPayee", "AddMissingCategory">>

\* a Lock that never blocks: the mutex left out
CanLockAlways(m) == TRUE

\* sync.Mutex.Lock returns only when no goroutine holds the mutex
CanLock(m) == m = Unlocked

InitTracker ==
    /\ flags = <<>>
    /\ outputFormat = "CSV"
    /\ columnsToUse = <<>>
    /\ pc = "tracker"
    /\ matched = <<>>
    /\ files = <<>>
    /\ records = <<>>
    /\ count = 0
    /\ fileIndex = 0
    /\ vt = NewValidationTracker
    /\ IdleBalance
    /\ mu = Unlocked
    /\ calls = [g \in Goroutines |-> ProducerCalls]
    /\ at = [g \in Goroutines |-> [phase |-> "idle", k |-> 0]]
    /\ reg = [g \in Goroutines |-> 0]
    /\ IdleSession
    /\ IdlePure
    /\ IdleOps
    /\ IdlePaths

trackerFrame ==
    /\ UNCHANGED <<flags, outputFormat, columnsToUse, pc, matched, files, records, count,
                   fileIndex>>
    /\ UNCHANGED <<balanceVars, sessionVars, pureVars, opsVars, pathVars>>

\* vt.mu.Lock() at the head of the next method
Lock(g) ==
    /\ at[g].phase = "idle"
    /\ calls[g] # <<>>
    /\ CanLock(mu)
    /\ mu' = g
    /\ at' = [at EXCEPT ![g] = [phase |-> "load", k |-> 1]]
    /\ UNCHANGED <<vt, calls, reg>>
    /\ trackerFrame

\* counter++ reads the counter ...
Load(g) ==
    /\ at[g].phase = "load"
    /\ reg' = [reg EXCEPT ![g] = vt[Increments(Head(calls[g]))[at[g].k]]]
    /\ at' = [at EXCEPT ![g].phase = "store"]
    /\ UNCHANGED <<vt, mu, calls>>
    /\ trackerFrame

\* ... and writes it back, one greater
Store(g) ==
    /\ at[g].phase = "store"
    /\ vt' = [vt EXCEPT ![Increments(Head(calls[g]))[at[g].k]] = reg[g] + 1]
    /\ at' = [at EXCEPT ![g] =
                 IF at[g].k < Len(Increments(Head(calls[g])))
                 THEN [phase |-> "load", k |-> at[g].k + 1]
                 ELSE [phase |-> "unlock", k |-> 0]]
    /\ UNCHANGED <<mu, calls, reg>>
    /\ trackerFrame

\* the deferred vt.mu.Unlock() as the method returns
Unlock(g) ==
    /\ at[g].phase = "unlock"
    /\ mu' = Unlocked
    /\ calls' = [calls EXCEPT ![g] = Tail(@)]
    /\ at' = [at EXCEPT ![g] = [phase |-> "idle", k |-> 0]]
    /\ UNCHANGED <<vt, reg>>
    /\ trackerFrame

NextTracker == \E g \in Goroutines : Lock(g) \/ Load(g) \/ Store(g) \/ Unlock(g)

SpecTracker == InitTracker /\ [][NextTracker]_vars

AllReturned == \A g \in Goroutines : calls[g] = <<>>

\* C9: when every producer has made its three calls, TotalTransactions,
\* MissingPayees and MissingCategory each equal the number of producers.
C9_NoLostUpdates ==
    AllReturned =>
        /\ vt.TotalTransactions = NumProducers
        /\ vt.MissingPayees = NumProducers
        /\ vt.MissingCategory = NumProducers

C9_Witness == AllReturned /\ vt.TotalProcessed = NumProducers

\* ------------------------------------------------ functions, one call at a time
\* the texts a field can hold: letters, slashes and blanks
FieldChars == {"a", "/", " "}

Texts(n) == UNION {[1..k -> FieldChars] : k \in 0..n}

InitPure ==
    /\ flags = <<>>
    /\ outputFormat = "CSV"
    /\ columnsToUse = <<>>
    /\ pc = "pure"
    /\ matched = <<>>
    /\ files = <<>>
    /\ records = <<>>
    /\ count = 0
    /\ fileIndex = 0
    /\ vt = NewValidationTracker
    /\ IdleBalance
    /\ IdleTracker
    /\ IdleSession
    /\ IdlePure
    /\ IdleOps
    /\ IdlePaths

pureFrame ==
    /\ UNCHANGED <<flags, outputFormat, columnsToUse, pc, matched, files, records, count,
                   fileIndex, vt>>
    /\ UNCHANGED <<balanceVars, trackerVars, sessionVars, opsVars, pathVars>>

\* category, tag := utils.SplitCategoryAndTag(categoryField)
CallSplitCategoryAndTag ==
    /\ call = NoCall
    /\ \E x \in Texts(MaxFieldLen) :
          /\ call' = [fn |-> "SplitCategoryAndTag", arg |-> x]
          /\ ret' = SplitCategoryAndTag(x)
    /\ pureFrame

\* the k-th transaction of an input text, with the optional lines `has` names
TransactionLines(k, has) ==
    <<<<"D", "1", "/", "1", Digits[k + 1], "'", "2", "3">>,
      <<"U", "-", "1", ".", "0", "0">>,
      <<"T", "-", "1", ".", "0", "0">>,
      <<"C", "X">>>>
    \o (IF "N" \in has THEN <<<<"N", "1", "0", Digits[k + 1]>>>> ELSE <<>>)
    \o (IF "P" \in has THEN <<<<"P", "S", "h", "o", "p", Digits[k + 1]>>>> ELSE <<>>)
    \o (IF "M" \in has THEN <<<<"M", "m", Digits[k + 1]>>>> ELSE <<>>)
    \o <<<<"L", "F", "o", "o", "d">>, <<"^">>>>

RECURSIVE TextOf(_, _)
TextOf(shape, k) ==
    IF k > Len(shape) THEN <<>>
    ELSE TransactionLines(k, shape[k]) \o TextOf(shape, k + 1)

\* account sections of up to MaxBlocks transactions, each with any of its
\* number, payee and memo lines left out
SectionTexts ==
    {TextOf(shape, 1) : shape \in UNION {[1..n -> SUBSET {"N", "P", "M"}] : n \in 1..MaxBlocks}}

\* transactions := regex.FindAllStringSubmatch(textBetweenTypes, -1)
CallFindAllStringSubmatch ==
    /\ call = NoCall
    /\ \E text \in SectionTexts :
          /\ call' = [fn |-> "FindAllStringSubmatch", arg |-> text]
          /\ ret' = FindAllStringSubmatch(text)
    /\ pureFrame

\* the records of a mapping file: one, two and three columns, an empty
\* target, the same source twice, sources that differ in case only
MappingRecords ==
    {<<<<"a">>>>,
     <<<<"a">>, <<"x">>>>,
     <<<<"a">>, <<"y">>>>,
     <<<<"a">>, <<>>>>,
     <<<<"A">>, <<"z">>>>,
     <<<<"a">>, <<"x">>, <<"y">>>>}

MappingFiles == UNION {[1..n -> MappingRecords] : n \in 0..MaxRows}

\* mapping, err = loadMapping(file); ... applyMapping(v, mapping)
CallApplyMapping ==
    /\ call = NoCall
    /\ \E rows \in MappingFiles : \E v \in {<<"a">>, <<"A">>, <<"b">>} :
          /\ call' = [fn |-> "applyMapping", arg |-> v, rows |-> rows]
          /\ ret' = applyMapping(v, loadMapping(rows))
    /\ pureFrame

\* transactions.go lines 441-509: the matches of the section the export
\* writes a record for
ExportWrites(lines, start, end) ==
    SelectSeq(FindAllStringSubmatch(lines),
              LAMBDA t : InDateRange(CanonicalDate(TrimSpace(t.month), TrimSpace(t.day),
                                                   TrimSpace(t.year)), start, end))

\* balance-history lines 237-298: the matches of the section whose amount
\* is added to dailyBalances
BalanceAccumulates(lines, start, end) ==
    SelectSeq(BalanceFindAll(lines),
              LAMBDA t : /\ ParseFloat(RemoveChar(TrimSpace(t.amount1), ",")).ok
                         /\ InDateRange(CanonicalDate(TrimSpace(t.month), TrimSpace(t.day),
                                                      TrimSpace(t.year)), start, end))

Date0112 == <<"2", "0", "2", "3", "-", "0", "1", "-", "1", "2">>

\* export transactions and balance-history on the same account section with
\* the same --startDate
CallBothCommands ==
    /\ call = NoCall
    /\ \E text \in SectionTexts : \E start \in {<<>>, Date0112} :
          /\ call' = [fn |-> "transactions", arg |-> text, start |-> start]
          /\ ret' = [written |-> ExportWrites(text, start, <<>>),
                     accumulated |-> BalanceAccumulates(text, start, <<>>)]
    /\ pureFrame

RECURSIVE SplitAll(_, _)
\* strings.Split(s, sep) for a one-character sep
SplitAll(s, sep) ==
    IF IndexOf(s, sep) = 0 THEN <<s>>
    ELSE <<SubSeq(s, 1, IndexOf(s, sep) - 1)>>
         \o SplitAll(SubSeq(s, IndexOf(s, sep) + 1, Len(s)), sep)

\* categories.go lines 196-209
splitCategoryAndTag(originalCategoryValue) ==
    IF IndexOf(originalCategoryValue, "/") # 0
    THEN <<SplitAll(originalCategoryValue, "/")[1], SplitAll(originalCategoryValue, "/")[2]>>
    ELSE <<originalCategoryValue, <<>>>>

\* categories.go lines 150-156: the category the categories commands list
ListedCategory(field) == RemoveChar(splitCategoryAndTag(TrimSpace(field))[1], "\"")

\* tagsCmd, lines 608-612: the tag the tags commands list
ListedTag(field) == RemoveChar(TrimSpace(splitCategoryAndTag(field)[2]), "\"")

\* the categories and the tags command on a transaction's category field
CallListCommands ==
    /\ call = NoCall
    /\ \E x \in Texts(MaxFieldLen) :
          /\ call' = [fn |-> "list", arg |-> x]
          /\ ret' = [category |-> ListedCategory(x), tag |-> ListedTag(x)]
    /\ pureFrame

NextPure ==
    \/ CallSplitCategoryAndTag
    \/ CallFindAllStringSubmatch
    \/ CallApplyMapping
    \/ CallBothCommands
    \/ CallListCommands

SpecPure == InitPure /\ [][NextPure]_vars

\* ------------------------------------------------------ claims on functions
SplitCalled == call.fn = "SplitCategoryAndTag"

HasSlash(x) == \E i \in 1..Len(x) : x[i] = "/"

SlashCount(x) == Cardinality({i \in 1..Len(x) : x[i] = "/"})

\* the position of the first slash of a text that has one
FirstSlash(x) == CHOOSE i \in 1..Len(x) : x[i] = "/" /\ \A j \in 1..(i - 1) : x[j] # "/"

Before(x) == SubSeq(x, 1, FirstSlash(x) - 1)

After(x) == SubSeq(x, FirstSlash(x) + 1, Len(x))

\* r is s without its leading and trailing blanks
IsTrimOf(r, s) ==
    /\ r = <<>> \/ (r[1] # " " /\ r[Len(r)] # " ")
    /\ \E i \in 1..(Len(s) - Len(r) + 1) :
          /\ \A j \in 1..(i - 1) : s[j] = " "
          /\ \A j \in (i + Len(r))..Len(s) : s[j] = " "
          /\ r = SubSeq(s, i, i + Len(r) - 1)

\* C13 as stated: the category is the text before the first slash and the tag
\* the whole remainder; without a slash the category is the whole field and
\* the tag is empty.
C13_SplitAtFirstSlash ==
    SplitCalled =>
        IF HasSlash(call.arg)
        THEN ret = <<Before(call.arg), After(call.arg)>>
        ELSE ret = <<call.arg, <<>>>>

\* C13 amended: the category is the text before the first slash and the tag
\* the whole remainder, further slashes included, each without its leading
\* and trailing blanks; without a slash the category is the field without its
\* leading and trailing blanks and the tag is empty.
C13_SplitAtFirstSlashTrimmed ==
    SplitCalled =>
        IF HasSlash(call.arg)
        THEN IsTrimOf(ret[1], Before(call.arg)) /\ IsTrimOf(ret[2], After(call.arg))
        ELSE IsTrimOf(ret[1], call.arg) /\ ret[2] = <<>>

\* a field with two slashes and blanks around the first: the tag keeps the
\* second slash
C13_Witness ==
    /\ SplitCalled
    /\ call.arg = <<"a", " ", "/", "/", "a">>
    /\ ret = <<<<"a">>, <<"/", "a">>>>

Join(r) == r[1] \o <<"/">> \o r[2]

\* no blank at either end of the field nor next to its first slash
Tight(x) == Before(x) = TrimSpace(Before(x)) /\ After(x) = TrimSpace(After(x))

\* C14 as stated: category + "/" + tag gives the field back when it holds a
\* slash; otherwise the tag is empty.
C14_JoinRestores ==
    SplitCalled =>
        IF HasSlash(call.arg) THEN Join(ret) = call.arg ELSE ret[2] = <<>>

\* C14 amended: for a field that holds a slash, category + "/" + tag is the
\* field up to blanks, and is the field itself when it has no blank at its
\* ends or next to its first slash; otherwise the tag is empty.
C14_JoinRestoresTrimmed ==
    SplitCalled =>
        IF HasSlash(call.arg)
        THEN /\ RemoveChar(Join(ret), " ") = RemoveChar(call.arg, " ")
             /\ Tight(call.arg) => Join(ret) = call.arg
        ELSE ret[2] = <<>>

\* a field with two slashes and an inner blank is given back as it was
C14_Witness ==
    /\ SplitCalled
    /\ SlashCount(call.arg) = 2
    /\ Tight(call.arg)
    /\ \E i \in 1..Len(call.arg) : call.arg[i] = " "
    /\ Join(ret) = call.arg

FindAllCalled == call.fn = "FindAllStringSubmatch"

RECURSIVE Blocks(_, _)
\* the transactions of a text: the runs of lines that end with a "^" line
Blocks(lines, current) ==
    IF lines = <<>> THEN <<>>
    ELSE IF Head(lines) = <<"^">> THEN <<current>> \o Blocks(Tail(lines), <<>>)
    ELSE Blocks(Tail(lines), Append(current, Head(lines)))

\* the text of the block's line with this tag, or the empty text
Field(block, tag) ==
    IF \E i \in 1..Len(block) : Head(block[i]) = tag
    THEN Tail(block[CHOOSE i \in 1..Len(block) : Head(block[i]) = tag])
    ELSE <<>>

\* C15: of a text whose transactions leave out the payee line, the memo line
\* or both, every transaction is matched, in order, and a field left out comes
\* out as the empty text; no transaction and no follower of one is skipped.
C15_OptionalFields ==
    FindAllCalled =>
        LET blocks == Blocks(call.arg, <<>>)
        IN  /\ Len(ret) = Len(blocks)
            /\ \A k \in 1..Len(blocks) :
                  /\ <<"D">> \o ret[k].month \o <<"/">> \o ret[k].day \o <<"'">> \o ret[k].year
                       = blocks[k][1]
                  /\ ret[k].amount1 = Field(blocks[k], "U")
                  /\ TrimSpace(ret[k].payee) = Field(blocks[k], "P")
                  /\ TrimSpace(ret[k].memo) = Field(blocks[k], "M")
                  /\ ret[k].category = Field(blocks[k], "L")

\* a transaction without payee and memo followed by one that has both
C15_Witness ==
    /\ FindAllCalled
    /\ Len(ret) = 2
    /\ Field(Blocks(call.arg, <<>>)[1], "P") = <<>> /\ Field(Blocks(call.arg, <<>>)[1], "M") = <<>>
    /\ ret[1].payee = <<>> /\ ret[1].memo = <<>>
    /\ ret[2].payee # <<>> /\ ret[2].memo # <<>>

MappingCalled == call.fn = "applyMapping"

\* the two-column rows with source v and a target that is not empty
Hits(rows, v) ==
    {i \in 1..Len(rows) : Len(rows[i]) = 2 /\ rows[i][1] = v /\ rows[i][2] # <<>>}

\* C20: applyMapping(v, loadMapping(rows)) is the target of the last
\* two-column row with source exactly v and a non-empty target, and is v when
\* there is no such row; other rows do not count.
C20_LastRowWins ==
    MappingCalled =>
        LET hits == Hits(call.rows, call.arg)
        IN  IF hits # {}
            THEN ret = call.rows[CHOOSE i \in hits : \A j \in hits : j <= i][2]
            ELSE ret = call.arg

\* the source is mapped twice, then once more to an empty target: the second
\* target is returned
C20_Witness ==
    /\ MappingCalled
    /\ call.arg = <<"a">>
    /\ call.rows = <<<<<<"a">>, <<"x">>>>, <<<<"a">>, <<"y">>>>, <<<<"a">>, <<>>>>>>
    /\ ret = <<"y">>

\* ------------------------------------------- the export with a payee mapping
Mart == <<"M", "a", "r", "t">>
Cafe == <<"C", "a", "f", "e">>
QuotedShop == <<"S", "h", "\"", "o", "p">>

\* the table of --payeeMapFile: one entry the input uses, one it never does
PayeeTable == SetKey(SetKey(NoMapping, Shop, Mart), <<"O", "l", "d">>, <<"N", "e", "w">>)

\* the transactions of the input file: a payee of the table, the same payee
\* with a double quote inside, and a payee the table does not have
MappedMatches ==
    {Match(Jan15, Amt1000, <<" ">> \o Shop, <<>>, FoodTag),
     Match(Jan16, <<"0", ".", "1", "0">>, QuotedShop, <<"m">>, <<>>),
     Match(Mar02, <<"2">>, Cafe, <<>>, <<"F">>)}

InitMapped ==
    /\ flags \in [outputFormat : {"CSV", "JSON"},
                  csvColumns : {DefaultMonarchColumns},
                  maxRecordsPerFile : 0..MaxCap,
                  startDate : {<<>>},
                  endDate : {<<>>},
                  addTagForImport : {TRUE},
                  payeeMapping : {PayeeTable},
                  categoryMapping : {NoMapping},
                  tagMapping : {NoMapping},
                  accountMapping : {NoMapping}]
    /\ outputFormat = flags.outputFormat
    /\ columnsToUse = flags.csvColumns
    /\ pc = "start"
    /\ matched = <<>>
    /\ files = <<>>
    /\ records = <<>>
    /\ count = 0
    /\ fileIndex = 0
    /\ vt = NewValidationTracker
    /\ IdleBalance
    /\ IdleTracker
    /\ IdleSession
    /\ IdlePure
    /\ IdleOps
    /\ IdlePaths

NextMapped ==
    \/ StatInputFile(TRUE)
    \/ SelectFormat
    \/ ReadInputFile(TRUE)
    \/ OpenFirstFile(TRUE)
    \/ \E t \in MappedMatches : ProcessTransaction(t, TRUE)
    \/ CloseAccount

SpecMapped == InitMapped /\ [][NextMapped]_vars

\* the values the run has looked up in the payee table (line 457-459)
LookedUpPayees == {TrimSpace(matched[m].payee) : m \in 1..Len(matched)}

IsSuffixOf(v, key) ==
    Len(v) <= Len(key) /\ SubSeq(key, Len(key) - Len(v) + 1, Len(key)) = v

\* C21: after a full export run with a mapping table loaded, the tracker holds
\* every table entry no lookup matched (UnusedMappings) and a count for every
\* looked-up value the table does not have (UnmatchedData).
C21_MappingUsageTracked ==
    pc = "done" /\ ioFailure = "none" /\ DOMAIN flags.payeeMapping # {} =>
        /\ \A source \in DOMAIN flags.payeeMapping \ LookedUpPayees :
              \E k \in DOMAIN vt.UnusedMappings :
                 \E i \in 1..Len(vt.UnusedMappings[k]) : vt.UnusedMappings[k][i] = source
        /\ \A v \in LookedUpPayees \ DOMAIN flags.payeeMapping :
              \E k \in DOMAIN vt.UnmatchedData :
                 IsSuffixOf(<<":">> \o v, k) /\ vt.UnmatchedData[k] >= 1

\* the payee the three steps give in the order trim, strip quotes, look up
PayeeTrimStripMap(t) ==
    applyMapping(RemoveChar(TrimSpace(t.payee), "\""), flags.payeeMapping)

\* C22: the payee written to the output is the raw payee trimmed, then with
\* its double quotes stripped, then looked up in the payee mapping.
C22_PayeeTrimStripMap ==
    \A m \in 1..Len(matched) :
       Written([BuildRecord(matched[m], RecordCfg)
                   EXCEPT !.Merchant = PayeeTrimStripMap(matched[m]),
                          !.OriginalStatement = PayeeTrimStripMap(matched[m])])

\* ------------------------------- ValidationTracker: one caller, any methods
MaxOps == 4

InitOps ==
    /\ flags = <<>>
    /\ outputFormat = "CSV"
    /\ columnsToUse = <<>>
    /\ pc = "ops"
    /\ matched = <<>>
    /\ files = <<>>
    /\ records = <<>>
    /\ count = 0
    /\ fileIndex = 0
    /\ vt = NewValidationTracker
    /\ IdleBalance
    /\ IdleTracker
    /\ IdleSession
    /\ IdlePure
    /\ IdleOps
    /\ IdlePaths

opsFrame ==
    /\ UNCHANGED <<flags, outputFormat, columnsToUse, pc, matched, files, records, count,
                   fileIndex>>
    /\ UNCHANGED <<balanceVars, trackerVars, sessionVars, pureVars, pathVars>>

\* one entry of the history: the method, the size of its argument (the count
\* of AddDuplicate, the number of values of RecordUnusedMapping) and, for
\* HasWarnings, what it returned
Called(op, n, warned) == [op |-> op, n |-> n, warned |-> warned]

OpCounter(op) ==
    /\ Len(history) < MaxOps
    /\ vt' = CASE op = "AddMissingPayee" -> AddMissingPayee(vt)
               [] op = "AddMissingCategory" -> AddMissingCategory(vt)
               [] op = "AddZeroAmount" -> AddZeroAmount(vt)
               [] op = "RecordTransaction" -> RecordTransaction(vt)
    /\ history' = Append(history, Called(op, 0, FALSE))
    /\ opsFrame

OpAddUnmatchedData(dataType, value) ==
    /\ Len(history) < MaxOps
    /\ vt' = AddUnmatchedData(vt, dataType, value)
    /\ history' = Append(history, Called("AddUnmatchedData", Len(value), FALSE))
    /\ opsFrame

OpRecordUnusedMapping(mappingType, values) ==
    /\ Len(history) < MaxOps
    /\ vt' = RecordUnusedMapping(vt, mappingType, values)
    /\ history' = Append(history, Called("RecordUnusedMapping", Len(values), FALSE))
    /\ opsFrame

OpAddDuplicate(n) ==
    /\ Len(history) < MaxOps
    /\ vt' = AddDuplicate(vt, <<"1">>, Shop, <<"2">>, n)
    /\ history' = Append(history, Called("AddDuplicate", n, FALSE))
    /\ opsFrame

OpHasWarnings ==
    /\ Len(history) < MaxOps
    /\ vt' = vt
    /\ history' = Append(history, Called("HasWarnings", 0, HasWarnings(vt)))
    /\ opsFrame

NextOps ==
    \/ \E op \in {"AddMissingPayee", "AddMissingCategory", "AddZeroAmount",
                  "RecordTransaction"} : OpCounter(op)
    \/ OpAddUnmatchedData(<<"p">>, Cafe)
    \/ \E values \in {<<>>, <<Shop>>} : OpRecordUnusedMapping(<<"p">>, values)
    \/ \E n \in 1..2 : OpAddDuplicate(n)
    \/ OpHasWarnings

SpecOps == InitOps /\ [][NextOps]_vars

\* the calls after which there is something to report
RaisesWarning(e) ==
    \/ e.op \in {"AddMissingPayee", "AddMissingCategory", "AddZeroAmount",
                 "AddUnmatchedData"}
    \/ e.op = "AddDuplicate" /\ e.n > 1
    \/ e.op = "RecordUnusedMapping" /\ e.n > 0

\* C23: HasWarnings returns true exactly when one of the three counters is
\* above 0 or one of the three collections is non-empty; so it returns false
\* on a new tracker and after any calls of RecordTransaction and of
\* AddDuplicate with count <= 1, and true once any other call has recorded
\* something.
C23_HasWarningsIff ==
    /\ \A i \in 1..Len(history) :
          history[i].op = "HasWarnings" =>
             (history[i].warned <=> \E j \in 1..(i - 1) : RaisesWarning(history[j]))
    /\ history # <<>> /\ history[Len(history)].op = "HasWarnings" =>
          (history[Len(history)].warned <=>
              \/ vt.MissingPayees > 0 \/ vt.MissingCategory > 0 \/ vt.ZeroAmounts > 0
              \/ vt.DuplicateTransactions # <<>>
              \/ DOMAIN vt.UnusedMappings # {}
              \/ DOMAIN vt.UnmatchedData # {})

C23_Witness ==
    /\ Len(history) = 4
    /\ history[1].op = "AddDuplicate" /\ history[1].n = 1
    /\ history[2].op = "HasWarnings" /\ ~history[2].warned
    /\ history[3].op = "AddDuplicate" /\ history[3].n = 2
    /\ history[4].op = "HasWarnings" /\ history[4].warned

\* --------------------------------------------- the account blocks of a file
\* The input text, one entry per line. A transaction is its D line, which
\* stands for the field lines D..L, and its closing ^ line; date is the day
\* of the D line as the number yyyymmdd.
MaxSections == 2

Line(kind, text, date) == [kind |-> kind, text |-> text, date |-> date]

HeaderLines(name, type) ==
    <<Line("!Account", <<>>, 0), Line("N", name, 0), Line("T", <<"B">>, 0),
      Line("^", <<>>, 0), Line("!Type:", type, 0)>>

BlankLines(n) == [i \in 1..n |-> Line("blank", <<>>, 0)]

RECURSIVE TxnLines(_)
TxnLines(dates) ==
    IF dates = <<>> THEN <<>>
    ELSE <<Line("D", <<>>, Head(dates)), Line("^", <<>>, 0)>> \o TxnLines(Tail(dates))

SectionLines(name, c) ==
    HeaderLines(name, c.type) \o BlankLines(c.lead) \o TxnLines(c.dates)
    \o BlankLines(c.trail)
    \o (IF c.list THEN <<Line("!Type:", <<"C", "a", "t">>, 0)>> ELSE <<>>)

\* a section of the file: its !Type: declaration, the transactions that
\* follow, the blank lines before and after them, and whether a list
\* declaration (!Type:Cat) comes after those
SectionChoices ==
    {c \in [type : {<<"B", "a", "n", "k">>, <<"I", "n", "v", "s", "t">>},
            lead : 0..1,
            dates : {<<>>, <<20230115>>, <<20230116, 20230102>>},
            trail : 0..1,
            list : BOOLEAN] :
        /\ c.type = <<"I", "n", "v", "s", "t">> => c.lead = 0
        /\ c.list => c.trail = 1}

AccountNames == <<<<"A">>, <<"B">>, <<"C">>, <<"D">>>>

RECURSIVE FileLines(_, _)
FileLines(choices, k) ==
    IF k > Len(choices) THEN <<>>
    ELSE SectionLines(AccountNames[k], choices[k]) \o FileLines(choices, k + 1)

\* the files of up to MaxSections sections, as the choices of their sections
InputFiles == UNION {[1..n -> SectionChoices] : n \in 1..MaxSections}

KindAt(lines, i) == IF i \in 1..Len(lines) THEN lines[i].kind ELSE "eof"

IsBlankFrom(lines, i, j) == \A k \in i..(j - 1) : KindAt(lines, k) = "blank"

\* the five lines !Account, N, T, ^, !Type: start at line i
FiveHeaderLines(lines, i) ==
    /\ KindAt(lines, i) = "!Account"
    /\ KindAt(lines, i + 1) = "N"
    /\ KindAt(lines, i + 2) = "T"
    /\ KindAt(lines, i + 3) = "^"
    /\ KindAt(lines, i + 4) = "!Type:"

RECURSIVE SkipBlank(_, _)
\* the first line at or after i that is not whitespace only
SkipBlank(lines, i) ==
    IF KindAt(lines, i) = "blank" THEN SkipBlank(lines, i + 1) ELSE i

\* transactions.go line 235: the header pattern at line i; the trailing \s*\n
\* takes the whitespace-only lines after the !Type: line with it
ExportHeaderAt(lines, i) ==
    FiveHeaderLines(lines, i)
    /\ lines[i + 4].text \in {<<"B", "a", "n", "k">>, <<"C", "C", "a", "r", "d">>}

RECURSIVE ExportBlocksFrom(_, _)
\* regex.FindAllStringSubmatchIndex, line 332: [name, start, end) of each match
ExportBlocksFrom(lines, i) ==
    IF i > Len(lines) THEN <<>>
    ELSE IF ExportHeaderAt(lines, i)
         THEN <<[name |-> lines[i + 1].text, start |-> i,
                 end |-> SkipBlank(lines, i + 5)]>>
              \o ExportBlocksFrom(lines, SkipBlank(lines, i + 5))
         ELSE ExportBlocksFrom(lines, i + 1)

RECURSIVE NextTypeFrom(_, _)
\* nextTypeRe.FindStringIndex, lines 368-370: the start of the leftmost match
\* of (?mi)^\s*!Type:.*$ at or after line i, 0 when there is none; the \s*
\* lets the match start on a whitespace-only line before the !Type: line
NextTypeFrom(lines, i) ==
    IF i > Len(lines) THEN 0
    ELSE IF KindAt(lines, SkipBlank(lines, i)) = "!Type:" THEN i
         ELSE NextTypeFrom(lines, i + 1)

\* a span that always runs to the end of the text
EndOfText(lines, block) == Len(lines) + 1

\* lines 367-376: endPos
EndPos(lines, block) ==
    IF NextTypeFrom(lines, block.end) # 0
    THEN NextTypeFrom(lines, block.end)
    ELSE Len(lines) + 1

\* lines 332-376 and 417: the account blocks with their body span [from, to)
BodySpans(lines) ==
    LET blocks == ExportBlocksFrom(lines, 1)
    IN  [b \in 1..Len(blocks) |->
            [name |-> blocks[b].name, from |-> blocks[b].end,
             to |-> EndPos(lines, blocks[b])]]

\* account_stats.go line 88: the header pattern of account-stats, any type
RECURSIVE StatsHeaderFrom(_, _)
\* regex.FindStringIndex on the text from line i on: the line the first match
\* starts at, 0 when there is none
StatsHeaderFrom(lines, i) ==
    IF i > Len(lines) THEN 0
    ELSE IF FiveHeaderLines(lines, i) THEN i
         ELSE StatsHeaderFrom(lines, i + 1)

RECURSIVE StatsBlocksFrom(_, _)
\* regex.FindAllStringSubmatch, line 99
StatsBlocksFrom(lines, i) ==
    IF StatsHeaderFrom(lines, i) = 0 THEN <<>>
    ELSE <<[name |-> lines[StatsHeaderFrom(lines, i) + 1].text,
            start |-> StatsHeaderFrom(lines, i)]>>
         \o StatsBlocksFrom(lines, StatsHeaderFrom(lines, i) + 5)

\* the day numbers of the D lines among lines from..to-1
DatesIn(lines, from, to) ==
    LET idx == {k \in from..(to - 1) : KindAt(lines, k) = "D"}
    IN  {lines[k].date : k \in idx}

CountIn(lines, from, to) ==
    Cardinality({k \in from..(to - 1) : KindAt(lines, k) = "D"})

InitEarliest == 20991231
InitLatest == 19700101

\* lines 141-165: the statistics of the transactions of lines from..to-1
StatsOf(name, lines, from, to) ==
    LET ds == DatesIn(lines, from, to)
    IN  [name |-> name,
         count |-> CountIn(lines, from, to),
         earliest |-> IF \E d \in ds : d < InitEarliest
                      THEN CHOOSE d \in ds : \A e \in ds : d <= e ELSE InitEarliest,
         latest |-> IF \E d \in ds : d > InitLatest
                    THEN CHOOSE d \in ds : \A e \in ds : d >= e ELSE InitLatest]

\* lines 99-179: one report per account block; the section is looked for
\* with regex.FindStringIndex(inputContent), from the start of the text
AccountStats(lines) ==
    LET blocks == StatsBlocksFrom(lines, 1)
        loc == StatsHeaderFrom(lines, 1)
        from == loc + 5
        next == StatsHeaderFrom(lines, from)
        to == IF next # 0 THEN next ELSE Len(lines) + 1
    IN  [b \in 1..Len(blocks) |-> StatsOf(blocks[b].name, lines, from, to)]

InitSections ==
    /\ flags = <<>>
    /\ outputFormat = "CSV"
    /\ columnsToUse = <<>>
    /\ pc = "sections"
    /\ matched = <<>>
    /\ files = <<>>
    /\ records = <<>>
    /\ count = 0
    /\ fileIndex = 0
    /\ vt = NewValidationTracker
    /\ IdleBalance
    /\ IdleTracker
    /\ IdleSession
    /\ IdlePure
    /\ IdleOps
    /\ IdlePaths

\* qifutil account-stats -i file
CallAccountStats ==
    /\ call = NoCall
    /\ \E choices \in InputFiles : \E lines \in {FileLines(choices, 1)} :
          /\ call' = [fn |-> "account-stats", arg |-> lines]
          /\ ret' = AccountStats(lines)
    /\ pureFrame

\* the account loop of the transactions export, up to line 417
CallBodySpans ==
    /\ call = NoCall
    /\ \E choices \in InputFiles : \E lines \in {FileLines(choices, 1)} :
          /\ call' = [fn |-> "BodySpans", arg |-> lines]
          /\ ret' = BodySpans(lines)
    /\ pureFrame

NextSections ==
    \/ CallAccountStats
    \/ CallBodySpans

SpecSections == InitSections /\ [][NextSections]_vars

\* the line the k-th account header of the file starts at (every section of
\* these files opens with one), and the line after that account's section
HeaderStarts(lines) == {i \in 1..Len(lines) : KindAt(lines, i) = "!Account"}

SectionEnd(lines, i) ==
    IF \E j \in HeaderStarts(lines) : j > i
    THEN CHOOSE j \in HeaderStarts(lines) : j > i /\ \A h \in HeaderStarts(lines) : h > i => j <= h
    ELSE Len(lines) + 1

HeaderOfReport(lines, k) ==
    CHOOSE i \in HeaderStarts(lines) :
       Cardinality({h \in HeaderStarts(lines) : h <= i}) = k

\* C24: account-stats reports, for each account, the number of transactions
\* and the earliest and latest date of that account's own section: the text
\* between its header and the next account header.
C24_StatsOfOwnSection ==
    call.fn = "account-stats" =>
       /\ Len(ret) = Cardinality(HeaderStarts(call.arg))
       /\ \A k \in 1..Len(ret) :
             LET i == HeaderOfReport(call.arg, k)
                 to == SectionEnd(call.arg, i)
                 ds == DatesIn(call.arg, i + 5, to)
             IN  /\ ret[k].name = call.arg[i + 1].text
                 /\ ret[k].count = CountIn(call.arg, i + 5, to)
                 /\ ds # {} => ret[k].earliest \in ds /\ ret[k].latest \in ds
                                /\ \A d \in ds : ret[k].earliest <= d /\ d <= ret[k].latest

\* the first !Type: line at or after line i, or the line after the last one
TypeLineAfter(lines, i) ==
    IF \E m \in i..Len(lines) : KindAt(lines, m) = "!Type:"
    THEN CHOOSE m \in i..Len(lines) :
            KindAt(lines, m) = "!Type:" /\ \A n \in i..(m - 1) : KindAt(lines, n) # "!Type:"
    ELSE Len(lines) + 1

SpansDisjoint ==
    \A a, b \in 1..Len(ret) :
       a # b => ret[a].to <= ret[b].from \/ ret[b].to <= ret[a].from

\* C25 as stated: the body of an account block runs from the end of its
\* header to the next !Type: line, or to the end of the text; the bodies of
\* distinct blocks are disjoint.
C25_SpanEndsAtTypeLine ==
    call.fn = "BodySpans" =>
       /\ \A b \in 1..Len(ret) : ret[b].to = TypeLineAfter(call.arg, ret[b].from)
       /\ SpansDisjoint

\* C25, amended: the body runs from the end of the header to the run of
\* whitespace-only lines that leads to the next !Type: line (to the end of
\* the text when no !Type: line follows): it holds every line up to that
\* !Type: line that is not whitespace only, and no !Type: line; the bodies of
\* distinct blocks are disjoint, so no transaction is in two of them.
C25_SpanEndsBeforeTypeLine ==
    call.fn = "BodySpans" =>
       /\ \A b \in 1..Len(ret) :
             LET m == TypeLineAfter(call.arg, ret[b].from)
             IN  /\ ret[b].from <= ret[b].to /\ ret[b].to <= m
                 /\ IsBlankFrom(call.arg, ret[b].to, m)
                 /\ m <= Len(call.arg) /\ ret[b].to > ret[b].from
                       => KindAt(call.arg, ret[b].to - 1) # "blank"
                 /\ m > Len(call.arg) => ret[b].to = m
       /\ SpansDisjoint
       /\ \A k \in 1..Len(call.arg) :
             KindAt(call.arg, k) = "D" =>
                Cardinality({b \in 1..Len(ret) : ret[b].from <= k /\ k < ret[b].to}) <= 1

\* two Bank accounts with transactions; a blank line and then a !Type: line
\* follow those of the first, nothing follows those of the second
C25_Witness ==
    /\ call.fn = "BodySpans"
    /\ Len(ret) = 2
    /\ CountIn(call.arg, ret[1].from, ret[1].to) = 2
    /\ CountIn(call.arg, ret[2].from, ret[2].to) = 1
    /\ KindAt(call.arg, ret[1].to) = "blank"
    /\ KindAt(call.arg, ret[1].to + 1) = "!Type:"
    /\ ret[2].to = Len(call.arg) + 1

\* --------------------------------------------- the records of a split output
RECURSIVE ItemRecords(_)
\* what the items of a file say about records, in file order: the cells of
\* each row, the elements of each array
ItemRecords(items) ==
    IF items = <<>> THEN <<>>
    ELSE (IF Head(items).kind = "row" THEN <<Head(items).cells>>
          ELSE IF Head(items).kind = "jsonArray" THEN Head(items).recs
          ELSE <<>>)
         \o ItemRecords(Tail(items))

FileNumbered(n) == CHOOSE i \in 1..Len(files) : files[i].name.index = n

RECURSIVE OutputRecordsFrom(_)
\* the records of the account's files n, n+1, ... one file after the other
OutputRecordsFrom(n) ==
    IF \E i \in 1..Len(files) : files[i].name.index = n
    THEN ItemRecords(files[FileNumbered(n)].content) \o OutputRecordsFrom(n + 1)
    ELSE <<>>

\* how a record shows in the output: as its row of cells in CSV, as itself
\* in a JSON array
AsWritten(r) ==
    IF ToUpper(outputFormat) = "JSON" THEN r ELSE buildCSVRow(r, columnsToUse)

\* C26: with CSV or JSON output and any record cap, the records of the
\* account's files, read in the order of the files' sequence numbers, are
\* exactly the admitted transactions in source order: none lost, none twice,
\* none out of place.
C26_SplitPreservesRecords ==
    pc = "done" /\ ToUpper(outputFormat) \in {"CSV", "JSON"} =>
        /\ \A i \in 1..Len(files) :
              Cardinality({j \in 1..Len(files) : files[j].name.index = i}) = 1
        /\ OutputRecordsFrom(1) =
              [i \in 1..Len(AdmittedRecords) |-> AsWritten(AdmittedRecords[i])]

C26_Witness ==
    /\ pc = "done"
    /\ flags.outputFormat = "JSON"
    /\ flags.maxRecordsPerFile = 2
    /\ Len(AdmittedRecords) = 3
    /\ Len(files) = 2

\* C27: on the same account section and with the same date bounds, the
\* transactions whose amounts balance-history accumulates are the
\* transactions the export writes; a transaction without a payee line that
\* is exported is counted in the balance series too.
C27_SameTransactions ==
    call.fn = "transactions" =>
       {ret.accumulated[i] : i \in 1..Len(ret.accumulated)}
          = {ret.written[i] : i \in 1..Len(ret.written)}

\* the category and the tag the export derives from the category field
\* (transactions.go lines 464-475)
ExportCategory(field) == TrimSpace(SplitCategoryAndTag(TrimSpace(field))[1])

ExportTag(field) == TrimSpace(SplitCategoryAndTag(TrimSpace(field))[2])

\* C30: for every category field the categories and tags commands derive the
\* category and the tag the transactions export derives, fields with more
\* than one slash included.
C30_SameCategoryAndTag ==
    call.fn = "list" =>
       /\ ret.category = ExportCategory(call.arg)
       /\ ret.tag = ExportTag(call.arg)

\* ---------------- ValidationTracker: every method, called concurrently
\* what each goroutine calls, in order
CallPlans ==
    {<<"PrintSummary">>,
     <<"HasWarnings", "AddMissingPayee">>,
     <<"RecordTransaction", "PrintSummary">>}

InitCalls ==
    /\ flags = <<>>
    /\ outputFormat = "CSV"
    /\ columnsToUse = <<>>
    /\ pc = "calls"
    /\ matched = <<>>
    /\ files = <<>>
    /\ records = <<>>
    /\ count = 0
    /\ fileIndex = 0
    /\ vt = NewValidationTracker
    /\ IdleBalance
    /\ mu = Unlocked
    /\ calls \in [Goroutines -> CallPlans]
    /\ at = [g \in Goroutines |-> [phase |-> "idle", k |-> 0]]
    /\ reg = [g \in Goroutines |-> 0]
    /\ IdleSession
    /\ IdlePure
    /\ IdleOps
    /\ IdlePaths

\* the methods that only read: HasWarnings (lines 118-122) and PrintSummary
\* (lines 125-182)
ReadsOnly(method) == method \in {"HasWarnings", "PrintSummary"}

\* a PrintSummary that asks HasWarnings(), which locks, for the check
LocksAgainInPrintSummary(method) == method = "PrintSummary"

\* whether the method's check takes the mutex again while the method holds
\* it: both HasWarnings and PrintSummary go through hasWarningsUnlocked
\* (lines 106-121, 129)
LocksAgain(method) == FALSE

\* vt.mu.Lock() at the head of the next method
Acquire(g) ==
    /\ at[g].phase = "idle"
    /\ calls[g] # <<>>
    /\ CanLock(mu)
    /\ mu' = g
    /\ at' = [at EXCEPT ![g] = IF ReadsOnly(Head(calls[g]))
                               THEN [phase |-> "check", k |-> 0]
                               ELSE [phase |-> "load", k |-> 1]]
    /\ UNCHANGED <<vt, calls, reg>>
    /\ trackerFrame

\* the warnings check of HasWarnings and PrintSummary, under the held mutex;
\* a check that locks has to wait for the mutex first
Check(g) ==
    /\ at[g].phase = "check"
    /\ LocksAgain(Head(calls[g])) => CanLock(mu)
    /\ reg' = [reg EXCEPT ![g] = IF hasWarningsUnlocked(vt) THEN 1 ELSE 0]
    /\ at' = [at EXCEPT ![g] = [phase |-> "unlock", k |-> 0]]
    /\ UNCHANGED <<vt, mu, calls>>
    /\ trackerFrame

StepOf(g) == Acquire(g) \/ Load(g) \/ Store(g) \/ Check(g) \/ Unlock(g)

NextCalls == \E g \in Goroutines : StepOf(g)

\* a goroutine that can run does run; one blocked in Lock is woken when the
\* mutex is released
FairCalls == \A g \in Goroutines : WF_vars(StepOf(g))

SpecCalls == InitCalls /\ [][NextCalls]_vars /\ FairCalls

\* C28: whatever the interleaving, a call that waits for the mutex acquires
\* it, the call that holds it releases it, and every goroutine gets through
\* all its calls: no call waits for a mutex that it holds itself.
C28_EveryCallCompletes ==
    /\ \A g \in Goroutines : (at[g].phase = "idle" /\ calls[g] # <<>>) ~> (mu = g)
    /\ \A g \in Goroutines : (mu = g) ~> (mu # g)
    /\ <>AllReturned
    /\ [](\A g \in Goroutines :
             at[g].phase = "check" => ~(LocksAgain(Head(calls[g])) /\ mu = g))

\* one goroutine is in PrintSummary's check, holding the mutex, while
\* another waits to enter HasWarnings
C28_Witness ==
    \E g, h \in Goroutines :
       /\ g # h
       /\ mu = g /\ at[g].phase = "check" /\ Head(calls[g]) = "PrintSummary"
       /\ at[h].phase = "idle" /\ calls[h] # <<>> /\ Head(calls[h]) = "HasWarnings"

\* ------------------------------- the export's input file and output directory
\* a path is its components, absolute or relative to the working directory
Path(abs, parts) == [abs |-> abs, parts |-> parts]

RECURSIVE CleanParts(_, _)
\* filepath.Clean on the components of an absolute path: "." is dropped,
\* ".." takes the component before it away
CleanParts(parts, done) ==
    IF parts = <<>> THEN done
    ELSE IF Head(parts) = "." THEN CleanParts(Tail(parts), done)
    ELSE IF Head(parts) = ".."
         THEN CleanParts(Tail(parts),
                         IF done = <<>> THEN <<>> ELSE SubSeq(done, 1, Len(done) - 1))
    ELSE CleanParts(Tail(parts), Append(done, Head(parts)))

\* the file or directory the operating system resolves a path to when the
\* working directory is dir; also filepath.Abs (lines 188-194)
Resolve(p, dir) == IF p.abs THEN CleanParts(p.parts, <<>>) ELSE CleanParts(p.parts, dir)

\* the directory the command is started in
InvocationDir == <<"home", "me">>

\* the files named data.qif the machine may hold
QifFiles ==
    {<<"home", "me", "data.qif">>, <<"home", "me", "export", "data.qif">>,
     <<"home", "data.qif">>}

InitPaths ==
    /\ flags \in [inputFile : {Path(FALSE, <<"data.qif">>),
                               Path(FALSE, <<"..", "data.qif">>),
                               Path(TRUE, <<"home", "me", "data.qif">>)},
                  outputPath : {Path(FALSE, <<".">>), Path(FALSE, <<"export">>),
                                Path(FALSE, <<"export", "..">>),
                                Path(TRUE, <<"home">>)},
                  present : SUBSET QifFiles]
    /\ outputFormat = "CSV"
    /\ columnsToUse = <<>>
    /\ pc = "start"
    /\ matched = <<>>
    /\ files = <<>>
    /\ records = <<>>
    /\ count = 0
    /\ fileIndex = 0
    /\ vt = NewValidationTracker
    /\ IdleBalance
    /\ IdleTracker
    /\ IdleSession
    /\ IdlePure
    /\ IdleOps
    /\ cwd = InvocationDir
    /\ opened = <<>>

pathsFrame ==
    /\ UNCHANGED <<outputFormat, columnsToUse, matched, files, records, count,
                   fileIndex, vt, run, first, disk>>
    /\ UNCHANGED <<balanceVars, trackerVars, pureVars, opsVars>>

\* lines 185-216: outputPath is made absolute, created, and becomes the
\* working directory
ChangeToOutputDir ==
    /\ pc = "start"
    /\ flags' = [flags EXCEPT !.outputPath = Path(TRUE, Resolve(flags.outputPath, cwd))]
    /\ cwd' = Resolve(flags.outputPath, cwd)
    /\ pc' = "stat"
    /\ UNCHANGED <<opened, ioFailure>>
    /\ pathsFrame

\* lines 218-222: os.Stat(inputFile)
StatInputPath ==
    /\ pc = "stat"
    /\ opened' = Append(opened, Resolve(flags.inputFile, cwd))
    /\ IF Resolve(flags.inputFile, cwd) \in flags.present
       THEN pc' = "read" /\ ioFailure' = ioFailure
       ELSE pc' = "exit" /\ ioFailure' = "missing"
    /\ UNCHANGED <<flags, cwd>>
    /\ pathsFrame

\* line 315: os.ReadFile(inputFile)
ReadInputPath ==
    /\ pc = "read"
    /\ opened' = Append(opened, Resolve(flags.inputFile, cwd))
    /\ pc' = "done"
    /\ UNCHANGED <<flags, cwd, ioFailure>>
    /\ pathsFrame

NextPaths ==
    \/ ChangeToOutputDir
    \/ StatInputPath
    \/ ReadInputPath

SpecPaths == InitPaths /\ [][NextPaths]_vars

\* C29: whatever --outputPath is, the existence check and the read of the
\* input file go to the file that --inputFile names from the directory the
\* command was started in.
C29_InputFromInvocationDir ==
    \A i \in 1..Len(opened) : opened[i] = Resolve(flags.inputFile, InvocationDir)

====
